---- MODULE Spec2Model ----
(***************************************************************************)
(* Model of the midi-studio loader core: the bridge pause guard            *)
(* (bridge_control/mod.rs), the shared operation runner                    *)
(* (operation_runner.rs), the Flash and Reboot APIs (api.rs,               *)
(* reboot_api.rs), the HalfKay wait (bootloader.rs), the target selector   *)
(* (selector.rs), the Intel HEX loader (hex.rs), the HalfKay reports and   *)
(* the Windows overlapped write (halfkay.rs, halfkay/win32.rs), and the    *)
(* bridge pause step by step (bridge_control/mod.rs, process.rs, ipc.rs).  *)
(***************************************************************************)
EXTENDS Integers, Sequences, FiniteSets, TLC

\* ------------------------------------------------------------------ bounds
MaxTargets == 3
MaxProcs == 2
MaxResumeCalls == 3
MaxApiTargets == 2      \* targets discovered in a Flash / Reboot API run
MaxHidPaths == 2        \* HalfKay paths the host can enumerate
MaxPolls == 1           \* sleeps of one wait_for_new_halfkay
MaxRetries == 1
MaxBlockIdx == 1        \* highest block index a firmware image writes
MaxSelTargets == 3      \* targets in a list handed to the selector functions
MaxHexLines == 3        \* lines of a HEX file

\* teensy41.rs
CODE_SIZE == 8126464
BLOCK_SIZE == 1024
FLEXSPI_BASE == 1610612736

VARIABLES
    \* BridgeGuard (bridge_control/mod.rs)
    g_state,            \* "none" | "live" | "dropped"
    g_init,             \* the plan the guard was built with
    g_resume,           \* BridgeGuard.resume : Option<ResumePlan>
    g_log,              \* every call of the free function resume(plan, timeout)
    g_calls,            \* results of the explicit BridgeGuard::resume() calls
    \* locals of run_targets_with_bridge / the API functions
    pc,
    selected,
    idx,                \* position of the for loop over selected
    failed,
    fatal_err,
    ambiguous_message,
    result,
    pause_outcome,      \* outcome of the pause_bridge call, "NotCalled" before
    ran,                \* targets run_target was invoked on, in order
    results,            \* what run_target returned for each of them
    events,             \* what on_event received, in order
    \* FlashOptions / RebootOptions and the firmware image
    retries,
    no_reboot,
    wait_forever,       \* RebootOptions.wait_timeout is None
    blocks_to_write,
    \* position and locals of flash_one_target / reboot_one_target
    tpc,
    before,             \* HID paths listed before the reboot trigger
    hk_path,
    blk,                \* position in blocks_to_write
    attempt,
    polls,              \* polls of wait_for_new_halfkay so far
    touches,            \* device accesses, in order
    \* the functions studied on their own (select_targets, selector.rs, hex.rs)
    call_args,          \* the arguments of the call
    call_ret,           \* what the call returned, NoCall before
    hex                 \* locals of FirmwareImage::load_teensy41

guardVars == <<g_state, g_init, g_resume, g_log, g_calls>>
runVars == <<pc, selected, idx, failed, fatal_err, ambiguous_message, result,
             pause_outcome, ran, results, events>>
optVars == <<retries, no_reboot, wait_forever, blocks_to_write>>
targetVars == <<tpc, before, hk_path, blk, attempt, polls, touches>>
fnVars == <<call_args, call_ret, hex>>
vars == <<guardVars, runVars, optVars, targetVars, fnVars>>

NoCall == [tag |-> "NoCall"]
InitFnIdle ==
    /\ call_args = NoCall
    /\ call_ret = NoCall
    /\ hex = NoCall

\* ------------------------------------------------- bridge_control: data
Methods == {"Auto", "Control", "Service", "Process", "None"}
ServiceStatuses == {"Running", "Stopped", "NotInstalled"}

NoPlan == [kind |-> "None", cmds |-> 0]
ControlPlan == [kind |-> "Control", cmds |-> 0]
ServicePlan == [kind |-> "Service", cmds |-> 0]
ProcessesPlan(n) == [kind |-> "Processes", cmds |-> n]

NoGuard == [some |-> FALSE, resume |-> NoPlan]
SomeGuard(plan) == [some |-> TRUE, resume |-> plan]

BridgePause(guard, outcome, detail) ==
    [guard |-> guard, outcome |-> outcome, detail |-> detail]

\* BridgeControlOptions, the fields that decide control flow.
BridgeControlOptions ==
    [enabled : BOOLEAN, method : Methods, allow_process_fallback : BOOLEAN]

\* What one call of pause_oc_bridge observes of the host:
\*   ipc      control_pause returned Ok
\*   svc      service_status: a ServiceStatus, or "Err"
\*   stop     stop_service returned Ok
\*   feature  built with the process-fallback feature
\*   procs    the oc-bridge processes found; TRUE = executable path known
\*   kill     stop_processes returned Ok
ProcLists == UNION {[1..n -> BOOLEAN] : n \in 0..MaxProcs}
Observations ==
    [ipc : BOOLEAN, svc : ServiceStatuses \cup {"Err"}, stop : BOOLEAN,
     feature : BOOLEAN, procs : ProcLists, kill : BOOLEAN]

\* process.rs: pause_process_fallback -> ProcessPauseOutcome
pause_process_fallback(obs) ==
    IF ~obs.feature THEN [outcome |-> "Skipped", detail |-> "ProcessNotRestartable", cmds |-> 0]
    ELSE IF Len(obs.procs) = 0 THEN [outcome |-> "Skipped", detail |-> "NotRunning", cmds |-> 0]
    ELSE IF \E i \in 1..Len(obs.procs) : ~obs.procs[i]
        THEN [outcome |-> "Skipped", detail |-> "ProcessNotRestartable", cmds |-> 0]
    ELSE IF ~obs.kill THEN [outcome |-> "Failed", detail |-> "unable to stop oc-bridge process", cmds |-> 0]
    ELSE [outcome |-> "Paused", detail |-> "Process", cmds |-> Len(obs.procs)]

pause_control_only(opts, obs) ==
    IF obs.ipc
    THEN BridgePause(SomeGuard(ControlPlan), "Paused", "Control")
    ELSE BridgePause(NoGuard, "Failed", "oc-bridge control pause failed")

pause_service_only(opts, obs) ==
    CASE obs.svc = "Running" ->
            IF obs.stop
            THEN BridgePause(SomeGuard(ServicePlan), "Paused", "Service")
            ELSE BridgePause(NoGuard, "Failed", "unable to stop bridge service")
      [] obs.svc = "Stopped" -> BridgePause(NoGuard, "Skipped", "NotRunning")
      [] obs.svc = "NotInstalled" -> BridgePause(NoGuard, "Skipped", "NotInstalled")
      [] obs.svc = "Err" -> BridgePause(NoGuard, "Failed", "unable to query bridge service")

pause_process_only(opts, obs) ==
    IF ~opts.allow_process_fallback
    THEN BridgePause(NoGuard, "Failed", "process fallback disabled")
    ELSE LET p == pause_process_fallback(obs) IN
         CASE p.outcome = "Paused" ->
                BridgePause(SomeGuard(ProcessesPlan(p.cmds)), "Paused", p.detail)
           [] p.outcome = "Skipped" /\ p.detail = "NotRunning" ->
                BridgePause(NoGuard, "Skipped", "NotRunning")
           [] p.outcome = "Skipped" /\ p.detail # "NotRunning" ->
                BridgePause(NoGuard, "Failed", "process fallback unavailable")
           [] p.outcome = "Failed" -> BridgePause(NoGuard, "Failed", p.detail)

pause_auto(opts, obs) ==
    IF obs.ipc THEN BridgePause(SomeGuard(ControlPlan), "Paused", "Control")
    ELSE IF obs.svc = "Running" THEN
        IF obs.stop
        THEN BridgePause(SomeGuard(ServicePlan), "Paused", "Service")
        ELSE BridgePause(NoGuard, "Failed", "unable to stop bridge service")
    ELSE IF obs.svc = "Stopped" THEN BridgePause(NoGuard, "Skipped", "NotRunning")
    ELSE IF obs.svc = "Err" THEN BridgePause(NoGuard, "Failed", "unable to query bridge service")
    ELSE IF ~opts.allow_process_fallback THEN BridgePause(NoGuard, "Skipped", "NotInstalled")
    ELSE LET p == pause_process_fallback(obs) IN
         CASE p.outcome = "Paused" ->
                BridgePause(SomeGuard(ProcessesPlan(p.cmds)), "Paused", p.detail)
           [] p.outcome = "Skipped" -> BridgePause(NoGuard, "Skipped", p.detail)
           [] p.outcome = "Failed" -> BridgePause(NoGuard, "Failed", p.detail)

pause_oc_bridge(opts, obs) ==
    IF ~opts.enabled \/ opts.method = "None"
    THEN BridgePause(NoGuard, "Skipped", "Disabled")
    ELSE CASE opts.method = "Auto" -> pause_auto(opts, obs)
           [] opts.method = "Control" -> pause_control_only(opts, obs)
           [] opts.method = "Service" -> pause_service_only(opts, obs)
           [] opts.method = "Process" -> pause_process_only(opts, obs)

\* Every BridgePause a call of pause_oc_bridge can return.
PauseResults ==
    {pause_oc_bridge(opts, obs) : opts \in BridgeControlOptions, obs \in Observations}

\* ------------------------------------------------ bridge_control: guard
\* The outcomes of the free function resume(plan, timeout): Control and
\* Service are one request that succeeds or fails; Processes spawns the
\* recorded commands in order and stops at the first spawn that fails
\* (spawned = how many were started).
ResumeOutcomes(plan) ==
    IF plan.kind = "Processes"
    THEN {[ok |-> TRUE, spawned |-> plan.cmds]}
         \cup {[ok |-> FALSE, spawned |-> k] : k \in 0..(plan.cmds - 1)}
    ELSE {[ok |-> TRUE, spawned |-> 0], [ok |-> FALSE, spawned |-> 0]}

\* Mutant: a successful resume leaves the plan in place.
PlanAfterResume_keeps(plan, ok) == plan

\* The plan BridgeGuard::resume leaves in self.resume.
PlanAfterResume(plan, ok) == IF ok THEN NoPlan ELSE plan

\* BridgeGuard::resume(&mut self); ret' is its Result.
BridgeGuard_resume(out, ret) ==
    IF g_resume.kind = "None"
    THEN /\ ret = "Ok"
         /\ UNCHANGED <<g_resume, g_log>>
    ELSE /\ out \in ResumeOutcomes(g_resume)
         /\ g_log' = Append(g_log, [plan |-> g_resume, ok |-> out.ok, spawned |-> out.spawned])
         /\ g_resume' = PlanAfterResume(g_resume, out.ok)
         /\ ret = (IF out.ok THEN "Ok" ELSE "Err")

Rets == {"Ok", "Err"}
AnyOutcomes == UNION {ResumeOutcomes(p) : p \in {ControlPlan} \cup {ProcessesPlan(n) : n \in 0..MaxProcs}}

\* ---------------------------------------------------- targets and events
Kinds == {"HalfKay", "Serial"}

\* targets.rs: Target; name is the HID path or the port name.
Target(kind, name) == [kind |-> kind, name |-> name]

\* Target::id
TargetId(t) == IF t.kind = "HalfKay" THEN <<"halfkay:", t.name>> ELSE <<"serial:", t.name>>

\* Selections of 1..MaxTargets targets with pairwise distinct ids.
Selections ==
    UNION {{[i \in 1..n |-> Target(k[i], i)] : k \in [1..n -> Kinds]} : n \in 1..MaxTargets}

\* operation.rs: OperationEvent. tid is the target id (<<>> when the event
\* has none), msg an Option<String> (<<>> is None).
Ev(name, tid, ok, msg) == [ev |-> name, tid |-> tid, ok |-> ok, msg |-> msg]
Ev0(name) == Ev(name, <<>>, TRUE, <<>>)
EvT(name, t) == Ev(name, TargetId(t), TRUE, <<>>)

EventNames(evs) == {evs[i].ev : i \in 1..Len(evs)}
CountEv(evs, names) == Cardinality({i \in 1..Len(evs) : evs[i].ev \in names})

\* ------------------------------------------------- operation_runner.rs
NoErr == [tag |-> "None"]
NoMessage == [some |-> FALSE, v |-> ""]
SomeMessage(m) == [some |-> TRUE, v |-> m]
Pending == [tag |-> "Pending"]
Ok == [tag |-> "Ok"]
Err(e) == [tag |-> "Err", err |-> e]

\* The error type E of a run and the caller's adapters (RunTargetsErrors).
TargetError(amb, text) == [tag |-> "Target", amb |-> amb, text |-> text]
TargetErrors ==
    {TargetError(FALSE, "boom"), TargetError(TRUE, "ambiguous one"),
     TargetError(TRUE, "ambiguous two")}
is_ambiguous(e) == e.tag = "Target" /\ e.amb
to_string(e) == e.text
make_ambiguous(message) == [tag |-> "Ambiguous", text |-> message]
make_multi_failed(f, total) == [tag |-> "MultiFailed", failed |-> f, total |-> total]
make_bridge_pause_failed(message) == [tag |-> "BridgePauseFailed", text |-> message]

\* What a run_target closure does with one target: the events it emits
\* through on_event and the Result it returns.
RunTargetBehaviours(t) ==
    IF t.kind = "HalfKay"
    THEN {[evs |-> <<EvT("HalfKayOpen", t), EvT("Block", t), EvT("Done", t)>>, res |-> Ok]}
         \cup {[evs |-> <<EvT("HalfKayOpen", t), EvT("Block", t)>>, res |-> Err(e)] : e \in TargetErrors}
    ELSE {[evs |-> <<EvT("SoftReboot", t), EvT("HalfKayAppeared", t), EvT("HalfKayOpen", t),
                     EvT("Block", t), EvT("Done", t)>>, res |-> Ok]}
         \cup {[evs |-> <<EvT("SoftReboot", t)>>, res |-> Err(e)] : e \in TargetErrors}

\* Mutant: the gate is taken for every non-empty selection.
needs_serial_any == Len(selected) > 0

needs_serial == \E i \in 1..Len(selected) : selected[i].kind = "Serial"
total == Len(selected)
multi == total > 1

PauseEventName(outcome) ==
    CASE outcome = "Paused" -> "BridgePaused"
      [] outcome = "Skipped" -> "BridgePauseSkipped"
      [] outcome = "Failed" -> "BridgePauseFailed"

\* Mutant: the run goes on after a failed pause.
AbortsOnPause_never(outcome) == FALSE

\* A pause failure ends the run before the target loop.
AbortsOnPause(outcome) == outcome = "Failed"

\* lines 53-76: the bridge-pause gate.
\* line 76: bridge_guard = paused.guard; the guard lives in that local
\* until the function returns.
KeptGuard_discarded(guard) == NoGuard

KeptGuard(guard) == guard

RunnerPause ==
    /\ pc = "entry"
    /\ IF needs_serial
       THEN \E paused \in PauseResults :
              /\ events' = events \o <<Ev0("BridgePauseStart"),
                                       Ev(PauseEventName(paused.outcome), <<>>, TRUE, <<paused.detail>>)>>
              /\ pause_outcome' = paused.outcome
              /\ IF AbortsOnPause(paused.outcome)
                 THEN /\ result' = Err(make_bridge_pause_failed(paused.detail))
                      /\ pc' = "returned"
                      /\ UNCHANGED <<g_state, g_init, g_resume>>
                 ELSE /\ g_state' = (IF KeptGuard(paused.guard).some THEN "live" ELSE "none")
                      /\ g_init' = paused.guard.resume
                      /\ g_resume' = KeptGuard(paused.guard).resume
                      /\ pc' = "loop"
                      /\ UNCHANGED result
       ELSE /\ pc' = "loop"
            /\ UNCHANGED <<events, pause_outcome, result, g_state, g_init, g_resume>>
    /\ UNCHANGED <<g_log, g_calls, selected, idx, failed, fatal_err, ambiguous_message,
                   ran, results>>
    /\ UNCHANGED <<optVars, targetVars>>
    /\ UNCHANGED fnVars

\* Mutant: the last ambiguous message wins.
NextAmbiguous_last(cur, e) ==
    IF is_ambiguous(e) THEN SomeMessage(to_string(e)) ELSE cur

\* The first ambiguous message wins.
NextAmbiguous(cur, e) ==
    IF is_ambiguous(e) /\ ~cur.some THEN SomeMessage(to_string(e)) ELSE cur

\* Mutant: a failure ends the loop in every mode.
BreaksLoop_always(m) == TRUE

\* A failure ends the loop in single-target mode only.
BreaksLoop(m) == ~m

\* lines 87-105: the TargetDone event of either arm.
TargetDone_noMessage(target, res) == Ev("TargetDone", TargetId(target), res = Ok, <<>>)

TargetDone(target, res) ==
    Ev("TargetDone", TargetId(target), res = Ok,
       IF res = Ok THEN <<>> ELSE <<to_string(res.err)>>)

\* lines 78-113: one iteration of the loop over selected.
RunnerTarget ==
    /\ pc = "loop"
    /\ idx <= Len(selected)
    /\ LET target == selected[idx] IN
       \E b \in RunTargetBehaviours(target) :
         /\ ran' = Append(ran, idx)
         /\ results' = Append(results, b.res)
         /\ IF b.res = Ok
            THEN /\ events' = events \o <<Ev("TargetStart", TargetId(target), TRUE, <<target.kind>>)>>
                                \o b.evs \o <<TargetDone(target, b.res)>>
                 /\ pc' = (IF idx = Len(selected) THEN "resolve" ELSE "loop")
                 /\ idx' = idx + 1
                 /\ UNCHANGED <<failed, ambiguous_message, fatal_err>>
            ELSE /\ failed' = failed + 1
                 /\ ambiguous_message' = NextAmbiguous(ambiguous_message, b.res.err)
                 /\ events' = events \o <<Ev("TargetStart", TargetId(target), TRUE, <<target.kind>>)>>
                                \o b.evs
                                \o <<TargetDone(target, b.res)>>
                 /\ IF BreaksLoop(multi)
                    THEN /\ fatal_err' = b.res.err
                         /\ pc' = "resolve"
                         /\ UNCHANGED idx
                    ELSE /\ pc' = (IF idx = Len(selected) THEN "resolve" ELSE "loop")
                         /\ idx' = idx + 1
                         /\ UNCHANGED fatal_err
    /\ UNCHANGED <<guardVars, selected, result, pause_outcome>>
    /\ UNCHANGED <<optVars, targetVars>>
    /\ UNCHANGED fnVars

\* Mutant: an ambiguous message takes precedence over the fatal error.
ResolveResult_ambFirst(fatal, amb, f, n) ==
    IF amb.some THEN Err(make_ambiguous(amb.v))
    ELSE IF fatal # NoErr THEN Err(fatal)
    ELSE IF f > 0 THEN Err(make_multi_failed(f, n))
    ELSE Ok

\* lines 115-123: the precedence of the returned value.
ResolveResult(fatal, amb, f, n) ==
    IF fatal # NoErr THEN Err(fatal)
    ELSE IF amb.some THEN Err(make_ambiguous(amb.v))
    ELSE IF f > 0 THEN Err(make_multi_failed(f, n))
    ELSE Ok

RunnerResolve ==
    /\ pc = "resolve"
    /\ result' = ResolveResult(fatal_err, ambiguous_message, failed, total)
    /\ pc' = "resume"
    /\ UNCHANGED <<guardVars, selected, idx, failed, fatal_err, ambiguous_message,
                   pause_outcome, ran, results, events>>
    /\ UNCHANGED <<optVars, targetVars>>
    /\ UNCHANGED fnVars

ResumeEventName(ret) == IF ret = "Ok" THEN "BridgeResumed" ELSE "BridgeResumeFailed"

\* service.rs 74-91: the command that starts the service. A Service plan
\* only exists on the three platforms with a service manager: elsewhere
\* service_status answers NotInstalled (service.rs 178-182).
Platforms == {"windows", "linux", "macos"}
hint_start_service(os) ==
    CASE os = "windows" -> <<"Try: sc start ", "oc-bridge">>
      [] os = "linux" -> <<"Try: systemctl --user start ", "oc-bridge">>
      [] os = "macos" -> <<"Try: launchctl start ", "oc-bridge">>

\* mod.rs 140-148: BridgeGuard::resume_hint, an Option<String>.
resume_hint(plan, os) ==
    CASE plan.kind = "Control" -> SomeMessage(<<"Try: oc-bridge ctl resume --control-port ", "port">>)
      [] plan.kind = "Service" -> SomeMessage(hint_start_service(os))
      [] OTHER -> NoMessage

\* lines 128-135: BridgeResumed, or BridgeResumeFailed{error: {message, hint}}.
ResumeEvent(ret, hint) ==
    IF ret = "Ok" THEN Ev0(ResumeEventName(ret))
    ELSE Ev(ResumeEventName(ret), <<>>, FALSE, hint)

\* Mutant: the resume block is skipped when the targets failed.
HasGuard_onSuccessOnly == g_state = "live" /\ result = Ok

\* `if let Some(mut g) = bridge_guard`: the resume block runs for any guard.
HasGuard == g_state = "live"

\* Mutant: a failed resume replaces an Ok result.
ResultAfterResume_propagates(res, ret) ==
    IF ret = "Err" /\ res = Ok THEN Err([tag |-> "ResumeFailed"]) ELSE res

\* The value the run returns once the resume block has run: `result` itself,
\* whatever g.resume() returned.
ResultAfterResume(res, ret) == res

\* lines 125-137: the explicit, best-effort resume.
RunnerResume ==
    /\ pc = "resume"
    /\ IF HasGuard
       THEN \E out \in AnyOutcomes, ret \in Rets, os \in Platforms :
              /\ BridgeGuard_resume(out, ret)
              /\ g_calls' = Append(g_calls, ret)
              /\ events' = events \o <<Ev0("BridgeResumeStart"),
                                       ResumeEvent(ret, resume_hint(g_resume, os))>>
              /\ result' = ResultAfterResume(result, ret)
       ELSE UNCHANGED <<g_resume, g_log, g_calls, events, result>>
    /\ pc' = "return"
    /\ UNCHANGED <<g_state, g_init, selected, idx, failed, fatal_err, ambiguous_message,
                   pause_outcome, ran, results>>
    /\ UNCHANGED <<optVars, targetVars>>
    /\ UNCHANGED fnVars

\* lines 137-140: g goes out of scope (Drop for BridgeGuard) and result is returned.
RunnerReturn ==
    /\ pc = "return"
    /\ IF g_state = "live"
       THEN \E out \in AnyOutcomes, ret \in Rets :
              /\ BridgeGuard_resume(out, ret)
              /\ g_state' = "dropped"
       ELSE UNCHANGED <<g_state, g_resume, g_log>>
    /\ pc' = "returned"
    /\ UNCHANGED <<g_init, g_calls, selected, idx, failed, fatal_err, ambiguous_message,
                   result, pause_outcome, ran, results, events>>
    /\ UNCHANGED <<optVars, targetVars>>
    /\ UNCHANGED fnVars

InitGuardNone ==
    /\ g_state = "none"
    /\ g_init = NoPlan
    /\ g_resume = NoPlan
    /\ g_log = <<>>
    /\ g_calls = <<>>

InitLocals ==
    /\ pc = "entry"
    /\ idx = 1
    /\ failed = 0
    /\ fatal_err = NoErr
    /\ ambiguous_message = NoMessage
    /\ result = Pending
    /\ pause_outcome = "NotCalled"
    /\ ran = <<>>
    /\ results = <<>>
    /\ events = <<>>

InitTarget ==
    /\ tpc = "idle"
    /\ before = {}
    /\ hk_path = 0
    /\ blk = 1
    /\ attempt = 0
    /\ polls = 0
    /\ touches = <<>>

\* Options and per-target locals of the APIs, unused by the bare runner.
InitIdle ==
    /\ retries = 0
    /\ no_reboot = FALSE
    /\ wait_forever = FALSE
    /\ blocks_to_write = <<>>
    /\ InitTarget

Init ==
    /\ InitGuardNone
    /\ InitLocals
    /\ InitIdle
    /\ selected \in Selections
    /\ InitFnIdle

Next ==
    \/ RunnerPause
    \/ RunnerTarget
    \/ RunnerResolve
    \/ RunnerResume
    \/ RunnerReturn

Spec == Init /\ [][Next]_vars

\* ------------------------------------------------------------ api.rs
\* targets.rs discover_targets: HalfKay targets first, then Serial, each
\* kind by name.
DiscoveryLists ==
    {[i \in 1..(h + n) |-> IF i <= h THEN Target("HalfKay", i) ELSE Target("Serial", i - h)] :
        h \in 0..MaxApiTargets, n \in 0..MaxApiTargets} \ {<<>>}

\* What select_targets returns: the whole list (All) or one target of it.
ApiSelections ==
    {l \in DiscoveryLists : Len(l) <= MaxApiTargets}
    \cup UNION {{<<l[i]>> : i \in 1..Len(l)} : l \in DiscoveryLists}

HidPaths == 1..MaxHidPaths

RECURSIVE SortedSeq(_)
SortedSeq(S) ==
    IF S = {} THEN <<>>
    ELSE LET m == CHOOSE x \in S : \A y \in S : x <= y
         IN <<m>> \o SortedSeq(S \ {m})

\* hex.rs lines 123-135: block 0 always, then the non-blank blocks in order.
FirmwareWriteSets ==
    {<<0>> \o SortedSeq({b * BLOCK_SIZE : b \in S}) : S \in SUBSET (1..MaxBlockIdx)}

\* FlashError and FlashError::kind
FlashErr(tag, a, b) == [tag |-> tag, a |-> a, b |-> b]
FlashError_kind(e) ==
    CASE e.tag = "NoTargets" -> "NoDevice"
      [] e.tag = "AmbiguousTarget" -> "AmbiguousTarget"
      [] e.tag = "DiscoveryFailed" -> "Unexpected"
      [] e.tag = "InvalidHex" -> "InvalidHex"
      [] e.tag = "SoftRebootFailed" -> "NoDevice"
      [] e.tag = "OpenHalfKay" -> "NoDevice"
      [] e.tag \in {"WriteFailed", "ReopenFailed"} -> "WriteFailed"
      [] e.tag = "MultiTargetFailed" -> "WriteFailed"

\* Display for FlashError (the thiserror attributes).
FlashError_to_string(e) ==
    CASE e.tag = "NoTargets" -> <<"no target device found">>
      [] e.tag = "AmbiguousTarget" -> <<"ambiguous target: ", e.a>>
      [] e.tag = "DiscoveryFailed" -> <<"target discovery failed: ", e.a>>
      [] e.tag = "InvalidHex" -> <<"invalid HEX: ", e.a>>
      [] e.tag = "SoftRebootFailed" -> <<"soft reboot failed on ", e.a, ": ", e.b>>
      [] e.tag = "OpenHalfKay" -> <<"unable to open HalfKay device at ", e.a, ": ", e.b>>
      [] e.tag = "WriteFailed" -> <<"write failed at addr=", e.a, " after ", e.b, " attempts">>
      [] e.tag = "ReopenFailed" ->
            <<"unable to reopen HalfKay device at ", e.a, " while writing addr=", e.b>>
      [] e.tag = "MultiTargetFailed" -> <<"flash failed for ", e.a, "/", e.b, " targets">>

\* bootloader.rs: WaitHalfKayError and its Display
WaitErr(tag, count) == [tag |-> tag, count |-> count]
WaitHalfKayError_to_string(e) ==
    CASE e.tag = "ListFailed" -> <<"HalfKay list failed: ", "hid">>
      [] e.tag = "Ambiguous" -> <<"multiple new HalfKay devices appeared (", e.count, ")">>
      [] e.tag = "Timeout" -> <<"HalfKay did not appear after soft reboot">>

\* What halfkay::list_paths returns: the paths of the HalfKay devices
\* present, one per device, in enumeration order.
HidListings ==
    UNION {{l \in [1..n -> HidPaths] : \A i, j \in 1..n : i # j => l[i] # l[j]} :
              n \in 0..MaxHidPaths}

\* bootloader.rs diff_new_halfkay: Ok(Some(p)), Ok(None) or Err(Ambiguous).
diff_new_halfkay_first(bef, now) ==
    LET new == SortSeq(SelectSeq(now, LAMBDA p : p \notin bef), LAMBDA x, y : x < y) IN
    IF Len(new) >= 1 THEN [tag |-> "Some", path |-> new[1], count |-> 1]
    ELSE [tag |-> "None", path |-> 0, count |-> 0]

diff_new_halfkay(bef, now) ==
    LET new == SortSeq(SelectSeq(now, LAMBDA p : p \notin bef), LAMBDA x, y : x < y) IN
    IF Len(new) = 1 THEN [tag |-> "Some", path |-> new[1], count |-> 1]
    ELSE IF Len(new) > 1 THEN [tag |-> "Err", path |-> 0, count |-> Len(new)]
    ELSE [tag |-> "None", path |-> 0, count |-> 0]

Touch(op, arg, ok) == [op |-> op, target |-> idx, arg |-> arg, ok |-> ok]

\* lines 206-226: the pause gate of flash_teensy41_with_selection.
FlashPause ==
    /\ pc = "entry"
    /\ IF needs_serial
       THEN \E paused \in PauseResults :
              /\ events' = events \o <<Ev0("BridgePauseStart"),
                                       Ev(PauseEventName(paused.outcome), <<>>, TRUE, <<paused.detail>>)>>
              /\ pause_outcome' = paused.outcome
              /\ g_state' = (IF paused.guard.some THEN "live" ELSE "none")
              /\ g_init' = paused.guard.resume
              /\ g_resume' = paused.guard.resume
       ELSE UNCHANGED <<events, pause_outcome, g_state, g_init, g_resume>>
    /\ pc' = "loop"
    /\ UNCHANGED <<g_log, g_calls, selected, idx, failed, fatal_err, ambiguous_message,
                   result, ran, results, optVars, targetVars>>
    /\ UNCHANGED fnVars

\* lines 241-262: the target's Result is counted and TargetDone emitted.
FlashFinishTarget(evs, res) ==
    /\ results' = Append(results, res)
    /\ tpc' = "idle"
    /\ IF res = Ok
       THEN /\ events' = events \o evs \o <<Ev("TargetDone", TargetId(selected[idx]), TRUE, <<>>)>>
            /\ pc' = (IF idx = Len(selected) THEN "resolve" ELSE "loop")
            /\ idx' = idx + 1
            /\ UNCHANGED <<failed, fatal_err>>
       ELSE /\ failed' = failed + 1
            /\ events' = events \o evs
                   \o <<Ev("TargetDone", TargetId(selected[idx]), FALSE,
                           <<FlashError_to_string(res.err)>>)>>
            /\ IF ~multi
               THEN /\ fatal_err' = res.err
                    /\ pc' = "resolve"
                    /\ UNCHANGED idx
               ELSE /\ pc' = (IF idx = Len(selected) THEN "resolve" ELSE "loop")
                    /\ idx' = idx + 1
                    /\ UNCHANGED fatal_err

\* flash_one_target goes on with its next step.
FlashStep(evs, next) ==
    /\ events' = events \o evs
    /\ tpc' = next
    /\ UNCHANGED <<results, failed, fatal_err, idx, pc>>

flashFrame == <<guardVars, selected, ambiguous_message, result, pause_outcome, optVars>>

\* lines 434-441: a HalfKay target is opened by its path; a Serial target
\* starts with the snapshot of the HalfKay paths.
FirstStep_noSnapshot(kind) == IF kind = "HalfKay" THEN "open" ELSE "reboot"

FirstStep(kind) == IF kind = "HalfKay" THEN "open" ELSE "snapshot"

\* lines 233-240 and 434-436: TargetStart, then dispatch on the target's kind.
FlashTargetStart ==
    /\ pc = "loop" /\ tpc = "idle" /\ idx <= Len(selected)
    /\ ran' = Append(ran, idx)
    /\ hk_path' = (IF selected[idx].kind = "HalfKay" THEN selected[idx].name ELSE hk_path)
    /\ FlashStep(<<Ev("TargetStart", TargetId(selected[idx]), TRUE, <<selected[idx].kind>>)>>,
                 FirstStep(selected[idx].kind))
    /\ UNCHANGED <<flashFrame, before, blk, attempt, polls, touches>>
    /\ UNCHANGED fnVars

\* lines 437-441: snapshot of the HalfKay paths present.
FlashSnapshot ==
    /\ pc = "loop" /\ tpc = "snapshot"
    /\ \/ /\ FlashFinishTarget(<<>>, Err(FlashErr("DiscoveryFailed", "hid", 0)))
          /\ touches' = Append(touches, Touch("list_paths", 0, FALSE))
          /\ UNCHANGED before
       \/ \E paths \in SUBSET HidPaths :
            /\ before' = paths
            /\ touches' = Append(touches, Touch("list_paths", 0, TRUE))
            /\ FlashStep(<<>>, "reboot")
    /\ UNCHANGED <<flashFrame, ran, hk_path, blk, attempt, polls>>
    /\ UNCHANGED fnVars

\* lines 443-462: the serial port is opened at 134 baud.
FlashSoftReboot ==
    /\ pc = "loop" /\ tpc = "reboot"
    /\ \E ok \in BOOLEAN :
         /\ touches' = Append(touches, Touch("soft_reboot_port", selected[idx].name, ok))
         /\ IF ok
            THEN FlashStep(<<EvT("SoftReboot", selected[idx])>>, "wait")
            ELSE FlashFinishTarget(<<EvT("SoftRebootSkipped", selected[idx])>>,
                     Err(FlashErr("SoftRebootFailed", selected[idx].name, "serial")))
    /\ polls' = 0
    /\ UNCHANGED <<flashFrame, ran, before, hk_path, blk, attempt>>
    /\ UNCHANGED fnVars

\* lines 464-475 with bootloader.rs wait_for_new_halfkay: one poll of the loop.
FlashWait ==
    /\ pc = "loop" /\ tpc = "wait"
    /\ \/ /\ FlashFinishTarget(<<>>, Err(FlashErr("AmbiguousTarget",
                 WaitHalfKayError_to_string(WaitErr("ListFailed", 0)), 0)))
          /\ UNCHANGED <<hk_path, polls>>
       \/ \E now \in HidListings :
            LET d == diff_new_halfkay(before, now) IN
            CASE d.tag = "Some" ->
                    /\ hk_path' = d.path
                    /\ FlashStep(<<Ev("HalfKayAppeared", TargetId(selected[idx]), TRUE, <<d.path>>)>>,
                                 "open")
                    /\ UNCHANGED polls
              [] d.tag = "Err" ->
                    /\ FlashFinishTarget(<<>>, Err(FlashErr("AmbiguousTarget",
                           WaitHalfKayError_to_string(WaitErr("Ambiguous", d.count)), 0)))
                    /\ UNCHANGED <<hk_path, polls>>
              [] d.tag = "None" ->
                    \/ /\ FlashFinishTarget(<<>>, Err(FlashErr("AmbiguousTarget",
                              WaitHalfKayError_to_string(WaitErr("Timeout", 0)), 0)))
                       /\ UNCHANGED <<hk_path, polls>>
                    \/ /\ polls < MaxPolls
                       /\ polls' = polls + 1
                       /\ FlashStep(<<>>, "wait")
                       /\ UNCHANGED hk_path
    /\ UNCHANGED <<flashFrame, ran, before, blk, attempt, touches>>
    /\ UNCHANGED fnVars

\* lines 493-501: flash_halfkay_path opens the device.
FlashOpen ==
    /\ pc = "loop" /\ tpc = "open"
    /\ \E ok \in BOOLEAN :
         /\ touches' = Append(touches, Touch("open_by_path", hk_path, ok))
         /\ IF ok
            THEN FlashStep(<<Ev("HalfKayOpen", TargetId(selected[idx]), TRUE, <<hk_path>>)>>, "block")
            ELSE FlashFinishTarget(<<>>, Err(FlashErr("OpenHalfKay", hk_path, "hid")))
    /\ blk' = 1
    /\ UNCHANGED <<flashFrame, ran, before, hk_path, attempt, polls>>
    /\ UNCHANGED fnVars

\* line 504: enumerate() numbers the blocks from 0; b is the position in
\* blocks_to_write, from 1.
BlockIndex_fromOne(b) == b

BlockIndex(b) == b - 1

\* lines 503-512: the next block is announced, or the loop is over.
FlashBlock ==
    /\ pc = "loop" /\ tpc = "block"
    /\ IF blk <= Len(blocks_to_write)
       THEN FlashStep(<<Ev("Block", TargetId(selected[idx]), TRUE,
                          <<BlockIndex(blk), Len(blocks_to_write), blocks_to_write[blk]>>)>>, "write")
       ELSE FlashStep(<<>>, "boot")
    /\ attempt' = 0
    /\ UNCHANGED <<flashFrame, ran, before, hk_path, blk, polls, touches>>
    /\ UNCHANGED fnVars

\* line 518: no attempt is left once attempt > opts.retries.
RetriesExhausted_offByOne(att, r) == att >= r

RetriesExhausted(att, r) == att > r

\* lines 513-533: one write attempt of the current block.
FlashWrite ==
    /\ pc = "loop" /\ tpc = "write"
    /\ attempt' = attempt + 1
    /\ \E ok \in BOOLEAN :
         /\ touches' = Append(touches, Touch("write_block", blocks_to_write[blk], ok))
         /\ IF ok
            THEN /\ blk' = blk + 1
                 /\ FlashStep(<<>>, "block")
            ELSE /\ UNCHANGED blk
                 /\ IF RetriesExhausted(attempt', retries)
                    THEN FlashFinishTarget(<<>>,
                             Err(FlashErr("WriteFailed", blocks_to_write[blk], attempt')))
                    ELSE FlashStep(<<Ev("Retry", TargetId(selected[idx]), TRUE,
                                        <<blocks_to_write[blk], attempt', retries>>)>>, "reopen")
    /\ UNCHANGED <<flashFrame, ran, before, hk_path, polls>>
    /\ UNCHANGED fnVars

\* lines 534-542 and 561-577: the device is reopened by the same path.
FlashReopen ==
    /\ pc = "loop" /\ tpc = "reopen"
    /\ \E ok \in BOOLEAN :
         /\ touches' = Append(touches, Touch("open_by_path", hk_path, ok))
         /\ IF ok
            THEN FlashStep(<<>>, "write")
            ELSE FlashFinishTarget(<<>>,
                     Err(FlashErr("ReopenFailed", hk_path, blocks_to_write[blk])))
    /\ UNCHANGED <<flashFrame, ran, before, hk_path, blk, attempt, polls>>
    /\ UNCHANGED fnVars

\* line 552: let _ = halfkay::boot_teensy41(&dev). The write of the boot
\* report succeeded (sent) or not; the target's result does not depend on it.
BootOutcome_propagates(sent) == IF sent THEN Ok ELSE Err(FlashErr("WriteFailed", 0, 1))

BootOutcome(sent) == Ok

\* lines 548-558: the boot report, whose result is ignored, and Done.
FlashBoot ==
    /\ pc = "loop" /\ tpc = "boot"
    /\ IF ~no_reboot
       THEN \E ok \in BOOLEAN :
              /\ touches' = Append(touches, Touch("boot_teensy41", hk_path, ok))
              /\ FlashFinishTarget(<<EvT("Boot", selected[idx]), EvT("Done", selected[idx])>>,
                                   BootOutcome(ok))
       ELSE /\ FlashFinishTarget(<<EvT("Done", selected[idx])>>, Ok)
            /\ UNCHANGED touches
    /\ UNCHANGED <<flashFrame, ran, before, hk_path, blk, attempt, polls>>
    /\ UNCHANGED fnVars

\* lines 265-271
FlashResolveResult(fatal, f, n) ==
    IF fatal # NoErr THEN Err(fatal)
    ELSE IF f > 0 THEN Err(FlashErr("MultiTargetFailed", f, n))
    ELSE Ok

FlashResolve ==
    /\ pc = "resolve"
    /\ result' = FlashResolveResult(fatal_err, failed, total)
    /\ pc' = "resume"
    /\ UNCHANGED <<guardVars, selected, idx, failed, fatal_err, ambiguous_message,
                   pause_outcome, ran, results, events, optVars, targetVars>>
    /\ UNCHANGED fnVars

\* lines 273-285
FlashResume ==
    /\ pc = "resume"
    /\ IF g_state = "live"
       THEN \E out \in AnyOutcomes, ret \in Rets, os \in Platforms :
              /\ BridgeGuard_resume(out, ret)
              /\ g_calls' = Append(g_calls, ret)
              /\ events' = events \o <<Ev0("BridgeResumeStart"),
                                       ResumeEvent(ret, resume_hint(g_resume, os))>>
       ELSE UNCHANGED <<g_resume, g_log, g_calls, events>>
    /\ pc' = "return"
    /\ UNCHANGED <<g_state, g_init, selected, idx, failed, fatal_err, ambiguous_message,
                   result, pause_outcome, ran, results, optVars, targetVars>>
    /\ UNCHANGED fnVars

\* lines 285-288: the guard is dropped and result returned.
FlashReturn ==
    /\ pc = "return"
    /\ IF g_state = "live"
       THEN \E out \in AnyOutcomes, ret \in Rets :
              /\ BridgeGuard_resume(out, ret)
              /\ g_state' = "dropped"
       ELSE UNCHANGED <<g_state, g_resume, g_log>>
    /\ pc' = "returned"
    /\ UNCHANGED <<g_init, g_calls, selected, idx, failed, fatal_err, ambiguous_message,
                   result, pause_outcome, ran, results, events, optVars, targetVars>>
    /\ UNCHANGED fnVars

\* The state once plan_teensy41_with_selection has returned Ok.
InitFlash ==
    /\ InitGuardNone
    /\ InitLocals
    /\ InitTarget
    /\ selected \in ApiSelections
    /\ retries \in 0..MaxRetries
    /\ no_reboot \in BOOLEAN
    /\ wait_forever = FALSE
    /\ blocks_to_write \in FirmwareWriteSets
    /\ InitFnIdle

NextFlash ==
    \/ FlashPause
    \/ FlashTargetStart
    \/ FlashSnapshot
    \/ FlashSoftReboot
    \/ FlashWait
    \/ FlashOpen
    \/ FlashBlock
    \/ FlashWrite
    \/ FlashReopen
    \/ FlashBoot
    \/ FlashResolve
    \/ FlashResume
    \/ FlashReturn

SpecFlash == InitFlash /\ [][NextFlash]_vars

\* ------------------------------------------------------- bootloader.rs
\* wait_for_new_halfkay(before, timeout, poll_interval) on its own. Every
\* iteration of its loop is logged: the listing read (ok = FALSE when
\* list_paths failed) and whether start.elapsed() >= timeout held then.
Poll(now, ok, elapsed) == [op |-> "list_paths", arg |-> now, ok |-> ok, elapsed |-> elapsed]

WaitReturn(res, path) ==
    /\ results' = Append(results, res)
    /\ hk_path' = path
    /\ tpc' = "idle"
    /\ UNCHANGED polls

\* lines 26-36: one iteration of the loop.
WaitPoll ==
    /\ tpc = "wait"
    /\ \E elapsed \in BOOLEAN :
         \/ /\ touches' = Append(touches, Poll(<<>>, FALSE, elapsed))
            /\ WaitReturn(Err(WaitErr("ListFailed", 0)), hk_path)
         \/ \E now \in HidListings :
              /\ touches' = Append(touches, Poll(now, TRUE, elapsed))
              /\ LET d == diff_new_halfkay(before, now) IN
                 CASE d.tag = "Some" -> WaitReturn(Ok, d.path)
                   [] d.tag = "Err" -> WaitReturn(Err(WaitErr("Ambiguous", d.count)), hk_path)
                   [] d.tag = "None" ->
                        IF elapsed
                        THEN WaitReturn(Err(WaitErr("Timeout", 0)), hk_path)
                        ELSE /\ polls < MaxPolls
                             /\ polls' = polls + 1
                             /\ UNCHANGED <<results, hk_path, tpc>>
    /\ UNCHANGED <<guardVars, pc, selected, idx, failed, fatal_err, ambiguous_message, result,
                   pause_outcome, ran, events, optVars, before, blk, attempt>>
    /\ UNCHANGED fnVars

InitWait ==
    /\ InitGuardNone
    /\ InitLocals
    /\ selected = <<>>
    /\ retries = 0
    /\ no_reboot = FALSE
    /\ wait_forever = FALSE
    /\ blocks_to_write = <<>>
    /\ tpc = "wait"
    /\ before \in SUBSET HidPaths
    /\ hk_path = 0
    /\ blk = 1
    /\ attempt = 0
    /\ polls = 0
    /\ touches = <<>>
    /\ InitFnIdle

NextWait == WaitPoll

SpecWait == InitWait /\ [][NextWait]_vars

\* --------------------------------------------------------- selector.rs
\* Strings are sequences of characters. Paths and port names are the
\* names the operating system enumerates (no surrounding whitespace);
\* selector texts are typed by the user and may carry it.
SerialPrefix == <<"s", "e", "r", "i", "a", "l", ":">>
HalfKayPrefix == <<"h", "a", "l", "f", "k", "a", "y", ":">>
IndexPrefix == <<"i", "n", "d", "e", "x", ":">>
DigitChars == <<"0", "1", "2", "3", "4", "5", "6", "7", "8", "9">>
TargetNames == {<<"c">>, <<"1">>, <<"c", "1">>}
NamedTargets == {Target(k, n) : k \in Kinds, n \in TargetNames}

\* targets.rs Target::id on character strings: format!("halfkay:{}", path)
\* and format!("serial:{}", port_name).
Target_id(t) == (IF t.kind = "HalfKay" THEN HalfKayPrefix ELSE SerialPrefix) \o t.name

\* Slices of targets in any order, repeated entries included.
TargetLists == UNION {[1..n -> NamedTargets] : n \in 0..MaxSelTargets}

\* str::trim, str::starts_with, str::strip_prefix
is_whitespace(c) == c = " "
RECURSIVE trim_start(_)
trim_start(s) ==
    IF s # <<>> /\ is_whitespace(Head(s)) THEN trim_start(Tail(s)) ELSE s
RECURSIVE trim_end(_)
trim_end(s) ==
    IF s # <<>> /\ is_whitespace(s[Len(s)]) THEN trim_end(SubSeq(s, 1, Len(s) - 1)) ELSE s
trim(s) == trim_end(trim_start(s))
starts_with(s, p) == Len(s) >= Len(p) /\ SubSeq(s, 1, Len(p)) = p
strip_prefix(s, p) == SubSeq(s, Len(p) + 1, Len(s))

\* usize::from_str on a string of ASCII digits, and {i} in format!.
is_ascii_digit(c) == \E d \in 1..10 : DigitChars[d] = c
digit_value(c) == (CHOOSE d \in 1..10 : DigitChars[d] = c) - 1
all_digits(s) == \A i \in 1..Len(s) : is_ascii_digit(s[i])
RECURSIVE parse_digits(_)
parse_digits(s) ==
    IF s = <<>> THEN 0
    ELSE 10 * parse_digits(SubSeq(s, 1, Len(s) - 1)) + digit_value(s[Len(s)])
RECURSIVE format_usize(_)
format_usize(n) ==
    IF n < 10 THEN <<DigitChars[n + 1]>>
    ELSE format_usize(n \div 10) \o <<DigitChars[(n % 10) + 1]>>

\* TargetSelector and SelectorError
SelIndex(n) == [tag |-> "Index", n |-> n]
SelId(id) == [tag |-> "Id", id |-> id]
SelectorErr(tag, a, b) == [tag |-> tag, a |-> a, b |-> b]
SelOk(v) == [ok |-> TRUE, v |-> v]
SelFail(e) == [ok |-> FALSE, err |-> e]

\* lines 26-54
parse_index(rest) ==
    IF rest # <<>> /\ all_digits(rest)
    THEN SelOk(SelIndex(parse_digits(rest)))
    ELSE SelFail(SelectorErr("InvalidSelector", "invalid index: ", rest))

IdPrefixes_serialOnly == {SerialPrefix}

IdPrefixes == {SerialPrefix, HalfKayPrefix}

parse_selector(text) ==
    LET s == trim(text) IN
    IF s = <<>> THEN SelFail(SelectorErr("InvalidSelector", "empty", <<>>))
    ELSE IF starts_with(s, IndexPrefix) THEN parse_index(trim(strip_prefix(s, IndexPrefix)))
    ELSE IF \E p \in IdPrefixes : starts_with(s, p) THEN SelOk(SelId(s))
    ELSE IF all_digits(s) THEN parse_index(s)
    ELSE SelOk(SelId(SerialPrefix \o s))

\* lines 56-72: the indices (from 0) of the targets the selector matches.
IdMatches_prefix(t, id) == starts_with(Target_id(t), id)

IdMatches(t, id) == Target_id(t) = id

resolve(selector, targets) ==
    IF selector.tag = "Index"
    THEN IF selector.n >= Len(targets)
         THEN SelFail(SelectorErr("IndexOutOfRange", selector.n, Len(targets)))
         ELSE SelOk(<<selector.n>>)
    ELSE SelOk(LET hits == SelectSeq([i \in 1..Len(targets) |-> i],
                                     LAMBDA i : IdMatches(targets[i], selector.id))
               IN [k \in 1..Len(hits) |-> hits[k] - 1])

\* lines 90-95
selector_string(sel) ==
    IF sel.tag = "Index" THEN IndexPrefix \o format_usize(sel.n) ELSE sel.id

\* lines 74-88
resolve_one(selector, targets) ==
    LET matches == resolve(selector, targets) IN
    IF ~matches.ok THEN matches
    ELSE IF matches.v = <<>> THEN SelFail(SelectorErr("NoMatch", selector_string(selector), 0))
    ELSE IF Len(matches.v) > 1
        THEN SelFail(SelectorErr("MultipleMatches", selector_string(selector), 0))
    ELSE SelOk(matches.v[1])

\* What a user may type as selector: an id, an index, a bare port name,
\* with or without surrounding whitespace.
SelectorTexts ==
    LET bodies == TargetNames \cup {<<>>, <<"0">>, <<"2">>, <<"1", "0">>, <<"x">>}
        pres == {<<>>, IndexPrefix, SerialPrefix, HalfKayPrefix}
        pads == {<<>>, <<" ">>}
    IN {a \o p \o b \o c : a \in pads, p \in pres, b \in bodies, c \in pads}

\* A selector text is parsed, then resolved against a list of targets.
InitSelector ==
    /\ InitGuardNone
    /\ InitLocals
    /\ InitIdle
    /\ selected = <<>>
    /\ call_args \in [targets : TargetLists, text : SelectorTexts]
    /\ call_ret = NoCall
    /\ hex = NoCall

SelectorParse ==
    /\ call_ret = NoCall
    /\ call_ret' = [parsed |-> parse_selector(call_args.text), resolved |-> NoCall]
    /\ UNCHANGED <<guardVars, runVars, optVars, targetVars, call_args, hex>>

SelectorResolve ==
    /\ call_ret # NoCall
    /\ call_ret.parsed.ok
    /\ call_ret.resolved = NoCall
    /\ call_ret' = [call_ret EXCEPT !.resolved = resolve_one(call_ret.parsed.v, call_args.targets)]
    /\ UNCHANGED <<guardVars, runVars, optVars, targetVars, call_args, hex>>

NextSelector ==
    \/ SelectorParse
    \/ SelectorResolve

SpecSelector == InitSelector /\ [][NextSelector]_vars

\* -------------------------------------------------------------- hex.rs
\* u32 values are kept as two 16-bit halves, so that hi << 16 and the
\* checked additions keep their 32-bit width.
U32(hi, lo) == [hi |-> hi, lo |-> lo]
NoneU32 == [hi |-> -1, lo |-> -1]
u32_of(n) == U32(n \div 65536, n % 65536)
u32_lt(a, b) == a.hi < b.hi \/ (a.hi = b.hi /\ a.lo < b.lo)
u32_sub(a, b) ==
    IF a.lo >= b.lo THEN U32(a.hi - b.hi, a.lo - b.lo)
    ELSE U32(a.hi - b.hi - 1, a.lo + 65536 - b.lo)
checked_add(a, n) ==
    IF a = NoneU32 THEN NoneU32
    ELSE LET lo == a.lo + (n % 65536)
             hi == a.hi + (n \div 65536) + (lo \div 65536)
         IN IF hi > 65535 THEN NoneU32 ELSE U32(hi, lo % 65536)
as_usize(a) == a.hi * 65536 + a.lo

\* lines 179-187: Some(addr) below CODE_SIZE, None (-1) otherwise.
map_teensy41_addr(a) == IF u32_lt(a, u32_of(CODE_SIZE)) THEN as_usize(a) ELSE -1

\* lines 214-217: wrapping sum of the bytes, then two's complement.
RECURSIVE wrapping_sum(_)
wrapping_sum(bytes) ==
    IF bytes = <<>> THEN 0 ELSE (Head(bytes) + wrapping_sum(Tail(bytes))) % 256

checksum_ihex_onesComplement(bytes) == 255 - wrapping_sum(bytes)

checksum_ihex(bytes) == ((255 - wrapping_sum(bytes)) + 1) % 256

\* enum HexError
HexErr(tag, line_no, addr) == [tag |-> tag, line_no |-> line_no, addr |-> addr]
HexFail(st, e) == [st EXCEPT !.phase = "done", !.result = SelFail(e)]

\* lines 110-114: an extended linear address inside the FlexSPI window is
\* made zero-based.
InFlexSpiWindow(a) ==
    /\ ~u32_lt(a, u32_of(FLEXSPI_BASE))
    /\ u32_lt(a, u32_of(FLEXSPI_BASE + CODE_SIZE))

normalize_ext_keep(a) == a

normalize_ext(a) == IF InFlexSpiWindow(a) THEN u32_sub(a, u32_of(FLEXSPI_BASE)) ELSE a

\* lines 82-91: the payload is stored byte by byte; the first byte whose
\* address overflows or falls outside the image ends the load.
RECURSIVE store_payload(_, _, _, _)
store_payload(st, addr, payload, i) ==
    IF i >= Len(payload) THEN st
    ELSE LET abs == checked_add(checked_add(st.ext_addr, addr), i) IN
         IF abs = NoneU32 THEN HexFail(st, HexErr("AddressOverflow", st.line_no, 0))
         ELSE LET a == map_teensy41_addr(abs) IN
              IF a = -1 THEN HexFail(st, HexErr("AddressOutOfRange", st.line_no, abs))
              ELSE store_payload(
                       [st EXCEPT !.data = [x \in DOMAIN st.data \cup {a} |->
                                               IF x = a THEN payload[i + 1] ELSE st.data[x]],
                                  !.writes = Append(st.writes,
                                                 [line |-> st.line_no, abs |-> a, b |-> payload[i + 1]])],
                       addr, payload, i + 1)

\* lines 78-120: the record types.
apply_record(st, len, addr, rec_type, payload) ==
    CASE rec_type = 0 ->
            store_payload([st EXCEPT !.byte_count = st.byte_count + len], addr, payload, 0)
      [] rec_type = 1 -> [st EXCEPT !.phase = "eof"]
      [] rec_type = 2 ->
            IF len = 2
            THEN LET seg == payload[1] * 256 + payload[2] IN
                 [st EXCEPT !.ext_addr = U32(seg \div 4096, (seg % 4096) * 16)]
            ELSE st
      [] rec_type = 4 ->
            IF len = 2
            THEN [st EXCEPT !.ext_addr = normalize_ext(U32(payload[1] * 256 + payload[2], 0))]
            ELSE st
      [] OTHER -> st

\* lines 27-121: one line of the file. A line is blank, lacks the ':',
\* does not decode (odd count or a non-hex digit), or decodes to bytes.
load_line(st0, line) ==
    LET st == [st0 EXCEPT !.line_no = st0.line_no + 1, !.lines = Append(st0.lines, line)]
        bytes == line.bytes
    IN CASE line.kind = "blank" -> st
         [] line.kind = "nocolon" ->
                HexFail(st, HexErr("InvalidLine", st.line_no, "missing ':' prefix"))
         [] line.kind = "undecodable" ->
                HexFail(st, HexErr("InvalidLine", st.line_no, "invalid hex digit"))
         [] line.kind = "bytes" ->
                IF Len(bytes) < 5
                THEN HexFail(st, HexErr("InvalidLine", st.line_no, "record too short"))
                ELSE IF Len(bytes) # 5 + bytes[1]
                    THEN HexFail(st, HexErr("InvalidLine", st.line_no, "bad length"))
                ELSE IF bytes[Len(bytes)] # checksum_ihex(SubSeq(bytes, 1, Len(bytes) - 1))
                    THEN HexFail(st, HexErr("InvalidChecksum", st.line_no, 0))
                ELSE apply_record(st, bytes[1], bytes[2] * 256 + bytes[3], bytes[4],
                                  SubSeq(bytes, 5, Len(bytes) - 1))

\* lines 169-177, on the bytes the mask marks (the others hold 0xFF).
is_block_blank_unwritten(data, start) ==
    \A i \in DOMAIN data : ~(start <= i /\ i < start + BLOCK_SIZE)

is_block_blank(data, start) ==
    \A i \in DOMAIN data : (start <= i /\ i < start + BLOCK_SIZE) => data[i] = 255

\* lines 126-135: block 0 always, another block unless it is blank.
IncludesBlock_nonBlankOnly(data, block_idx) == ~is_block_blank(data, block_idx * BLOCK_SIZE)

IncludesBlock(data, block_idx) ==
    block_idx = 0 \/ ~is_block_blank(data, block_idx * BLOCK_SIZE)

\* A block without a marked byte is blank, so only block 0 and the blocks
\* holding a marked byte need the test; the result is in ascending order.
compute_blocks_to_write(data) ==
    SortedSeq({b * BLOCK_SIZE : b \in {c \in {0} \cup {a \div BLOCK_SIZE : a \in DOMAIN data} :
                                          IncludesBlock(data, c)}})

\* Lines of a HEX file after decode_hex_bytes.
RECURSIVE SumBytes(_)
SumBytes(bytes) == IF bytes = <<>> THEN 0 ELSE Head(bytes) + SumBytes(Tail(bytes))
Rec(len, addr, rec_type, payload, delta) ==
    LET body == <<len, addr \div 256, addr % 256, rec_type>> \o payload
    IN [kind |-> "bytes", bytes |-> Append(body, (512 - (SumBytes(body) % 256) + delta) % 256)]
Record(addr, rec_type, payload) == Rec(Len(payload), addr, rec_type, payload, 0)
DataPayloads == {<<1>>, <<255>>, <<255, 1>>, <<1, 255>>}
GoodRecords ==
    {Record(a, 0, pl) : a \in {0, 1023, 65535}, pl \in DataPayloads}
    \cup {Record(0, 0, <<>>), Record(0, 1, <<>>), Record(0, 3, <<>>)}
    \cup {Record(0, 2, <<0, 64>>), Record(0, 4, <<96>>)}
    \cup {Record(0, 4, <<h \div 256, h % 256>>) : h \in {124, 24576, 24699, 24700, 65535}}
BadRecords ==
    {Rec(Len(r[3]), r[1], r[2], r[3], d) :
        r \in {<<1023, 0, <<1>>>>, <<0, 1, <<>>>>, <<0, 3, <<>>>>, <<0, 4, <<96, 0>>>>},
        d \in {1, 255}}
    \cup {Rec(1, 0, 0, <<>>, 0), Rec(1, 0, 0, <<>>, 1), Rec(0, 0, 3, <<7>>, 0),
           [kind |-> "bytes", bytes |-> <<0, 0, 1>>]}
HexLines ==
    GoodRecords \cup BadRecords
    \cup {[kind |-> k, bytes |-> <<>>] : k \in {"blank", "nocolon", "undecodable"}}

\* lines 18-25
InitHex ==
    /\ InitGuardNone
    /\ InitLocals
    /\ InitIdle
    /\ selected = <<>>
    /\ call_args = NoCall
    /\ call_ret = NoCall
    /\ hex = [phase |-> "reading", line_no |-> 0, ext_addr |-> U32(0, 0),
              data |-> <<>>, byte_count |-> 0, lines |-> <<>>, writes |-> <<>>,
              blocks_to_write |-> <<>>, result |-> NoCall]

hexFrame == <<guardVars, runVars, optVars, targetVars, call_args, call_ret>>

\* lines 27-121: the next line of the file is read.
HexLine ==
    /\ hex.phase = "reading"
    /\ hex.line_no < MaxHexLines
    /\ \E line \in HexLines : hex' = load_line(hex, line)
    /\ UNCHANGED hexFrame

\* lines 123-143: after the EOF record or the last line.
HexFinish ==
    /\ hex.phase \in {"reading", "eof"}
    /\ hex' = [hex EXCEPT !.phase = "done",
                          !.blocks_to_write = compute_blocks_to_write(hex.data),
                          !.result = SelOk("FirmwareImage")]
    /\ UNCHANGED hexFrame

NextHex ==
    \/ HexLine
    \/ HexFinish

SpecHex == InitHex /\ [][NextHex]_vars

\* ------------------------------------------- api.rs: select_targets
\* FlashSelection and Option<&str>
SelectAll == [tag |-> "All"]
SelectAuto == [tag |-> "Auto"]
SelectDevice(sel) == [tag |-> "Device", sel |-> sel]
NoPort == [some |-> FALSE, v |-> <<>>]
SomePort(p) == [some |-> TRUE, v |-> p]

\* Display of SelectorError (the thiserror attributes).
SelectorError_to_string(e) ==
    CASE e.tag = "InvalidSelector" -> <<"invalid selector: ", e.a, e.b>>
      [] e.tag = "IndexOutOfRange" -> <<"index out of range: ", e.a, " (have ", e.b, ")">>
      [] e.tag = "NoMatch" -> <<"no target matched: ", e.a>>
      [] e.tag = "MultipleMatches" -> <<"multiple targets matched: ", e.a>>

\* lines 342-352
FilterKind(targets, kind) == SelectSeq(targets, LAMBDA t : t.kind = kind)

\* lines 357-368
select_device(sel, targets) ==
    LET parsed == parse_selector(sel) IN
    IF ~parsed.ok
    THEN SelFail(FlashErr("AmbiguousTarget", SelectorError_to_string(parsed.err), 0))
    ELSE LET i == resolve_one(parsed.v, targets) IN
         IF ~i.ok THEN SelFail(FlashErr("AmbiguousTarget", SelectorError_to_string(i.err), 0))
         ELSE SelOk(<<targets[i.v + 1]>>)

\* line 373: exactly one HalfKay is selected whatever else is present.
SingleHalfKay_alone(halfkay, serial) == Len(halfkay) = 1 /\ serial = <<>>

SingleHalfKay(halfkay, serial) == Len(halfkay) = 1

\* line 386: Target::Serial(s) if s.port_name == port
PortMatches_prefix(t, port) == t.kind = "Serial" /\ starts_with(t.name, port)

PortMatches(t, port) == t.kind = "Serial" /\ t.name = port

\* lines 370-412
select_auto(serial_port, targets) ==
    LET halfkay == FilterKind(targets, "HalfKay")
        serial == FilterKind(targets, "Serial")
    IN IF SingleHalfKay(halfkay, serial) THEN SelOk(<<halfkay[1]>>)
       ELSE IF halfkay # <<>>
           THEN SelFail(FlashErr("AmbiguousTarget",
                    <<"multiple HalfKay devices detected (", Len(halfkay), ")">>, 0))
       ELSE IF serial_port.some
           THEN LET matches == SelectSeq(serial, LAMBDA t : PortMatches(t, serial_port.v)) IN
                IF Len(matches) = 1 THEN SelOk(<<matches[1]>>)
                ELSE IF matches = <<>> THEN SelFail(FlashErr("NoTargets", 0, 0))
                ELSE SelFail(FlashErr("AmbiguousTarget",
                         <<"multiple targets matched preferred serial port ", serial_port.v>>, 0))
       ELSE IF Len(targets) = 1 THEN SelOk(<<targets[1]>>)
       ELSE SelFail(FlashErr("AmbiguousTarget",
                <<"multiple targets detected (", Len(targets), ")">>, 0))

\* lines 329-422 without the event
select_targets(selection, serial_port, targets) ==
    IF targets = <<>> THEN SelFail(FlashErr("NoTargets", 0, 0))
    ELSE CASE selection.tag = "All" -> SelOk(targets)
           [] selection.tag = "Device" -> select_device(selection.sel, targets)
           [] selection.tag = "Auto" -> select_auto(serial_port, targets)

\* The selections, selector texts and port preferences a caller passes.
DeviceTexts ==
    {Target_id(t) : t \in NamedTargets}
    \cup {<<>>, <<"0">>, <<"2">>, <<"c">>, IndexPrefix \o <<"1">>}
FlashSelections == {SelectAll, SelectAuto} \cup {SelectDevice(x) : x \in DeviceTexts}
PortPreferences == {NoPort} \cup {SomePort(n) : n \in TargetNames \cup {<<"x">>}}

InitSelect ==
    /\ InitGuardNone
    /\ InitLocals
    /\ InitIdle
    /\ selected = <<>>
    /\ call_args \in [selection : FlashSelections, serial_port : PortPreferences,
                       targets : TargetLists, emit_selected_event : BOOLEAN]
    /\ call_ret = NoCall
    /\ hex = NoCall

\* lines 329-422: the call, with the TargetSelected event of lines 415-419.
SelectTargets ==
    /\ call_ret = NoCall
    /\ LET r == select_targets(call_args.selection, call_args.serial_port, call_args.targets) IN
       /\ call_ret' = r
       /\ events' = IF r.ok /\ call_args.emit_selected_event /\ Len(r.v) = 1
                     THEN Append(events, Ev("TargetSelected", Target_id(r.v[1]), TRUE, <<>>))
                     ELSE events
    /\ UNCHANGED <<guardVars, pc, selected, idx, failed, fatal_err, ambiguous_message, result,
                   pause_outcome, ran, results, optVars, targetVars, call_args, hex>>

NextSelect == SelectTargets

SpecSelect == InitSelect /\ [][NextSelect]_vars

\* A flash whose selection is one HalfKay target: flash_one_target goes
\* straight to flash_halfkay_path (line 435).
InitFlashHalfKay ==
    /\ InitFlash
    /\ \E p \in HidPaths : selected = <<Target("HalfKay", p)>>

NextFlashHalfKay ==
    \/ FlashPause
    \/ FlashTargetStart
    \/ FlashOpen
    \/ FlashBlock
    \/ FlashWrite
    \/ FlashReopen
    \/ FlashBoot
    \/ FlashResolve
    \/ FlashResume
    \/ FlashReturn

SpecFlashHalfKay == InitFlashHalfKay /\ [][NextFlashHalfKay]_vars

\* ----------------------------------------------------- reboot_api.rs
\* RebootError, RebootError::kind and its Display
RebootErr(tag, a, b) == [tag |-> tag, a |-> a, b |-> b]
RebootError_kind(e) ==
    CASE e.tag = "NoTargets" -> "NoDevice"
      [] e.tag = "AmbiguousTarget" -> "AmbiguousTarget"
      [] e.tag = "DiscoveryFailed" -> "Unexpected"
      [] e.tag = "SoftRebootFailed" -> "NoDevice"
      [] e.tag = "HalfKayTimeout" -> "NoDevice"
      [] e.tag = "MultiTargetFailed" -> "NoDevice"
      [] e.tag = "Unexpected" -> "Unexpected"

RebootError_to_string(e) ==
    CASE e.tag = "NoTargets" -> <<"no target device found">>
      [] e.tag = "AmbiguousTarget" -> <<"ambiguous target: ", e.a>>
      [] e.tag = "DiscoveryFailed" -> <<"target discovery failed: ", e.a>>
      [] e.tag = "SoftRebootFailed" -> <<"soft reboot failed on ", e.a, ": ", e.b>>
      [] e.tag = "HalfKayTimeout" -> <<"HalfKay did not appear after soft reboot">>
      [] e.tag = "MultiTargetFailed" -> <<"reboot failed for ", e.a, "/", e.b, " targets">>
      [] e.tag = "Unexpected" -> <<e.a>>

\* lines 309-319
map_wait_error(e) ==
    CASE e.tag = "Ambiguous" ->
            RebootErr("AmbiguousTarget", <<"multiple new HalfKay devices appeared (", e.count, ")">>, 0)
      [] e.tag = "Timeout" -> RebootErr("HalfKayTimeout", 0, 0)
      [] e.tag = "ListFailed" -> RebootErr("DiscoveryFailed", "hid", 0)

\* lines 138-159: the pause gate of reboot_teensy41_with_selection.
RebootPause ==
    /\ pc = "entry"
    /\ IF needs_serial
       THEN \E paused \in PauseResults :
              /\ events' = events \o <<Ev0("BridgePauseStart"),
                                       Ev(PauseEventName(paused.outcome), <<>>, TRUE, <<paused.detail>>)>>
              /\ pause_outcome' = paused.outcome
              /\ g_state' = (IF paused.guard.some THEN "live" ELSE "none")
              /\ g_init' = paused.guard.resume
              /\ g_resume' = paused.guard.resume
       ELSE UNCHANGED <<events, pause_outcome, g_state, g_init, g_resume>>
    /\ pc' = "loop"
    /\ UNCHANGED <<g_log, g_calls, selected, idx, failed, fatal_err, ambiguous_message,
                   result, ran, results, optVars, targetVars>>
    /\ UNCHANGED fnVars

\* lines 175-201: the target's Result is counted and TargetDone emitted.
RebootFinishTarget(evs, res) ==
    /\ results' = Append(results, res)
    /\ tpc' = "idle"
    /\ IF res = Ok
       THEN /\ events' = events \o evs \o <<Ev("TargetDone", TargetId(selected[idx]), TRUE, <<>>)>>
            /\ pc' = (IF idx = Len(selected) THEN "resolve" ELSE "loop")
            /\ idx' = idx + 1
            /\ UNCHANGED <<failed, fatal_err, ambiguous_message>>
       ELSE /\ failed' = failed + 1
            /\ ambiguous_message' =
                  (IF res.err.tag = "AmbiguousTarget" /\ ~ambiguous_message.some
                   THEN SomeMessage(res.err.a) ELSE ambiguous_message)
            /\ events' = events \o evs
                   \o <<Ev("TargetDone", TargetId(selected[idx]), FALSE,
                           <<RebootError_to_string(res.err)>>)>>
            /\ IF ~multi
               THEN /\ fatal_err' = res.err
                    /\ pc' = "resolve"
                    /\ UNCHANGED idx
               ELSE /\ pc' = (IF idx = Len(selected) THEN "resolve" ELSE "loop")
                    /\ idx' = idx + 1
                    /\ UNCHANGED fatal_err

\* reboot_one_target goes on with its next step.
RebootStep(evs, next) ==
    /\ events' = events \o evs
    /\ tpc' = next
    /\ UNCHANGED <<results, failed, fatal_err, ambiguous_message, idx, pc>>

rebootFrame == <<guardVars, selected, result, pause_outcome, optVars, blk, attempt>>

\* lines 240-249: a HalfKay target is already in the bootloader and is done
\* after its HalfKayOpen event; a Serial target starts with the snapshot.
RebootFirstStep_viaSerial(kind) == "snapshot"

RebootFirstStep(kind) == IF kind = "HalfKay" THEN "done" ELSE "snapshot"

\* lines 167-174 and 240-247: TargetStart; a HalfKay target is done at once.
RebootTargetStart ==
    /\ pc = "loop" /\ tpc = "idle" /\ idx <= Len(selected)
    /\ ran' = Append(ran, idx)
    /\ IF RebootFirstStep(selected[idx].kind) = "done"
       THEN RebootFinishTarget(
                <<Ev("TargetStart", TargetId(selected[idx]), TRUE, <<selected[idx].kind>>),
                  Ev("HalfKayOpen", TargetId(selected[idx]), TRUE, <<selected[idx].name>>)>>, Ok)
       ELSE RebootStep(<<Ev("TargetStart", TargetId(selected[idx]), TRUE, <<selected[idx].kind>>)>>,
                       RebootFirstStep(selected[idx].kind))
    /\ UNCHANGED <<rebootFrame, before, hk_path, polls, touches>>
    /\ UNCHANGED fnVars

\* lines 250-253: `let before` is bound to what list_paths returns now;
\* held is the set an earlier target's snapshot left.
BeforeSet_stale(held, listed) == IF held = {} THEN listed ELSE held

BeforeSet(held, listed) == listed

\* lines 250-253: the snapshot; the access log keeps the paths listed.
RebootSnapshot ==
    /\ pc = "loop" /\ tpc = "snapshot"
    /\ \/ /\ RebootFinishTarget(<<>>, Err(RebootErr("DiscoveryFailed", "hid", 0)))
          /\ touches' = Append(touches, Touch("list_paths", {}, FALSE))
          /\ UNCHANGED before
       \/ \E paths \in SUBSET HidPaths :
            /\ before' = BeforeSet(before, paths)
            /\ touches' = Append(touches, Touch("list_paths", paths, TRUE))
            /\ RebootStep(<<>>, "reboot")
    /\ UNCHANGED <<rebootFrame, ran, hk_path, polls>>
    /\ UNCHANGED fnVars

\* lines 255-273
RebootSoftReboot ==
    /\ pc = "loop" /\ tpc = "reboot"
    /\ \E ok \in BOOLEAN :
         /\ touches' = Append(touches, Touch("soft_reboot_port", selected[idx].name, ok))
         /\ IF ok
            THEN RebootStep(<<EvT("SoftReboot", selected[idx])>>, "wait")
            ELSE RebootFinishTarget(<<EvT("SoftRebootSkipped", selected[idx])>>,
                     Err(RebootErr("SoftRebootFailed", selected[idx].name, "serial")))
    /\ polls' = 0
    /\ UNCHANGED <<rebootFrame, ran, before, hk_path>>
    /\ UNCHANGED fnVars

\* lines 275-281 and 286-307: one poll; without a timeout the loop only ends
\* on a new path or an error. The access log receives the call of
\* wait_for_new_halfkay when it returns, with the path it returned and the
\* paths its last poll listed.
WaitSeen(path, now) == [path |-> path, now |-> {now[i] : i \in 1..Len(now)}]

RebootWait ==
    /\ pc = "loop" /\ tpc = "wait"
    /\ \/ /\ RebootFinishTarget(<<>>, Err(map_wait_error(WaitErr("ListFailed", 0))))
          /\ touches' = Append(touches, Touch("wait_for_new_halfkay", WaitSeen(0, <<>>), FALSE))
          /\ UNCHANGED <<hk_path, polls>>
       \/ \E now \in HidListings :
            LET d == diff_new_halfkay(before, now) IN
            CASE d.tag = "Some" ->
                    /\ hk_path' = d.path
                    /\ touches' = Append(touches, Touch("wait_for_new_halfkay", WaitSeen(d.path, now), TRUE))
                    /\ RebootFinishTarget(
                           <<Ev("HalfKayAppeared", TargetId(selected[idx]), TRUE, <<d.path>>)>>, Ok)
                    /\ UNCHANGED polls
              [] d.tag = "Err" ->
                    /\ RebootFinishTarget(<<>>, Err(map_wait_error(WaitErr("Ambiguous", d.count))))
                    /\ touches' = Append(touches, Touch("wait_for_new_halfkay", WaitSeen(0, now), FALSE))
                    /\ UNCHANGED <<hk_path, polls>>
              [] d.tag = "None" ->
                    \/ /\ ~wait_forever
                       /\ RebootFinishTarget(<<>>, Err(map_wait_error(WaitErr("Timeout", 0))))
                       /\ touches' = Append(touches, Touch("wait_for_new_halfkay", WaitSeen(0, now), FALSE))
                       /\ UNCHANGED <<hk_path, polls>>
                    \/ /\ polls < MaxPolls
                       /\ polls' = polls + 1
                       /\ RebootStep(<<>>, "wait")
                       /\ UNCHANGED <<hk_path, touches>>
    /\ UNCHANGED <<rebootFrame, ran, before>>
    /\ UNCHANGED fnVars

\* lines 204-212
RebootResolveResult(fatal, amb, f, n) ==
    IF fatal # NoErr THEN Err(fatal)
    ELSE IF amb.some THEN Err(RebootErr("AmbiguousTarget", amb.v, 0))
    ELSE IF f > 0 THEN Err(RebootErr("MultiTargetFailed", f, n))
    ELSE Ok

RebootResolve ==
    /\ pc = "resolve"
    /\ result' = RebootResolveResult(fatal_err, ambiguous_message, failed, total)
    /\ pc' = "resume"
    /\ UNCHANGED <<guardVars, selected, idx, failed, fatal_err, ambiguous_message,
                   pause_outcome, ran, results, events, optVars, targetVars>>
    /\ UNCHANGED fnVars

\* lines 214-226
RebootResume ==
    /\ pc = "resume"
    /\ IF g_state = "live"
       THEN \E out \in AnyOutcomes, ret \in Rets, os \in Platforms :
              /\ BridgeGuard_resume(out, ret)
              /\ g_calls' = Append(g_calls, ret)
              /\ events' = events \o <<Ev0("BridgeResumeStart"),
                                       ResumeEvent(ret, resume_hint(g_resume, os))>>
       ELSE UNCHANGED <<g_resume, g_log, g_calls, events>>
    /\ pc' = "return"
    /\ UNCHANGED <<g_state, g_init, selected, idx, failed, fatal_err, ambiguous_message,
                   result, pause_outcome, ran, results, optVars, targetVars>>
    /\ UNCHANGED fnVars

\* lines 226-229: the guard is dropped and result returned.
RebootReturn ==
    /\ pc = "return"
    /\ IF g_state = "live"
       THEN \E out \in AnyOutcomes, ret \in Rets :
              /\ BridgeGuard_resume(out, ret)
              /\ g_state' = "dropped"
       ELSE UNCHANGED <<g_state, g_resume, g_log>>
    /\ pc' = "returned"
    /\ UNCHANGED <<g_init, g_calls, selected, idx, failed, fatal_err, ambiguous_message,
                   result, pause_outcome, ran, results, events, optVars, targetVars>>
    /\ UNCHANGED fnVars

\* The state once select_targets has returned Ok (line 136).
InitReboot ==
    /\ InitGuardNone
    /\ InitLocals
    /\ InitTarget
    /\ selected \in ApiSelections
    /\ retries = 0
    /\ no_reboot = FALSE
    /\ wait_forever \in BOOLEAN
    /\ blocks_to_write = <<>>
    /\ InitFnIdle

NextReboot ==
    \/ RebootPause
    \/ RebootTargetStart
    \/ RebootSnapshot
    \/ RebootSoftReboot
    \/ RebootWait
    \/ RebootResolve
    \/ RebootResume
    \/ RebootReturn

SpecReboot == InitReboot /\ [][NextReboot]_vars

\* --------------------------------------------- the guard on its own
\* The plans pause_oc_bridge builds guards with.
GuardPlans == {p.guard.resume : p \in {q \in PauseResults : q.guard.some}}

InitGuard ==
    /\ g_state = "live"
    /\ g_init \in GuardPlans
    /\ g_resume = g_init
    /\ g_log = <<>>
    /\ g_calls = <<>>
    /\ InitLocals
    /\ InitIdle
    /\ selected = <<>>
    /\ InitFnIdle

\* The owner calls BridgeGuard::resume().
GuardExplicitResume ==
    /\ g_state = "live"
    /\ Len(g_calls) < MaxResumeCalls
    /\ \E out \in AnyOutcomes, ret \in Rets :
         /\ BridgeGuard_resume(out, ret)
         /\ g_calls' = Append(g_calls, ret)
    /\ UNCHANGED <<g_state, g_init, runVars>>
    /\ UNCHANGED <<optVars, targetVars>>
    /\ UNCHANGED fnVars

\* Drop for BridgeGuard: `let _ = self.resume();`
GuardDrop ==
    /\ g_state = "live"
    /\ \E out \in AnyOutcomes, ret \in Rets :
         /\ BridgeGuard_resume(out, ret)
         /\ g_state' = "dropped"
    /\ UNCHANGED <<g_init, g_calls, runVars>>
    /\ UNCHANGED <<optVars, targetVars>>
    /\ UNCHANGED fnVars

NextGuard ==
    \/ GuardExplicitResume
    \/ GuardDrop

SpecGuard == InitGuard /\ [][NextGuard]_vars

\* ------------------------------------------------------------- claims
AllHalfKay == \A i \in 1..Len(selected) : selected[i].kind = "HalfKay"
SomeSerial == \E i \in 1..Len(selected) : selected[i].kind = "Serial"
BridgeEvents ==
    {"BridgePauseStart", "BridgePaused", "BridgePauseSkipped", "BridgePauseFailed",
     "BridgeResumeStart", "BridgeResumed", "BridgeResumeFailed"}
EvSeqNames(evs) == [i \in 1..Len(evs) |-> evs[i].ev]
FailedAt == {i \in 1..Len(results) : results[i] # Ok}
AmbiguousAt == {i \in FailedAt : results[i].err.tag = "Target" /\ results[i].err.amb}
First(S) == CHOOSE i \in S : \A j \in S : i <= j
Completed == pc = "returned" /\ pause_outcome # "Failed"

\* C1: in a run with a Serial target whose pause returned Failed, run_target
\* is never invoked, the only events are BridgePauseStart then
\* BridgePauseFailed, and the run has returned make_bridge_pause_failed(error).
C1_PauseFailedAborts ==
    (SomeSerial /\ pause_outcome = "Failed") =>
        /\ ran = <<>>
        /\ EvSeqNames(events) = <<"BridgePauseStart", "BridgePauseFailed">>
        /\ pc = "returned"
        /\ result = Err([tag |-> "BridgePauseFailed", text |-> events[2].msg[1]])

C1_Witness == SomeSerial /\ pause_outcome = "Failed" /\ pc = "returned"

\* C2: the Flash API calls soft_reboot_port only while the pause outcome is
\* Skipped, or Paused with a live guard holding its resume plan; after a
\* Failed pause no target is touched (no TargetStart, no device access, no
\* Block) and the flash returns an error.
C2_FlashPauseGate ==
    /\ tpc = "reboot" =>
          \/ pause_outcome = "Skipped"
          \/ pause_outcome = "Paused" /\ g_state = "live" /\ g_resume # NoPlan
    /\ pause_outcome = "Failed" =>
          /\ ran = <<>>
          /\ touches = <<>>
          /\ EventNames(events) \cap {"TargetStart", "SoftReboot", "HalfKayOpen", "Block"} = {}
          /\ pc = "returned" => result.tag = "Err"

\* C3: in the Reboot API a Failed pause aborts the operation before any
\* target is touched: soft_reboot_port is never called, no TargetStart or
\* SoftReboot is emitted, and an error is returned.
C3_RebootPauseGate ==
    pause_outcome = "Failed" =>
        /\ ran = <<>>
        /\ \A i \in 1..Len(touches) : touches[i].op # "soft_reboot_port"
        /\ EventNames(events) \cap {"TargetStart", "SoftReboot"} = {}
        /\ pc = "returned" => result.tag = "Err"

\* C4: a run that emitted BridgePaused has emitted exactly one of
\* BridgeResumed / BridgeResumeFailed when it returns (and never more than one),
\* whatever the targets returned.
C4_ResumeExactlyOnce ==
    /\ CountEv(events, {"BridgeResumed", "BridgeResumeFailed"}) <= 1
    /\ (pc = "returned" /\ "BridgePaused" \in EventNames(events)) =>
          CountEv(events, {"BridgeResumed", "BridgeResumeFailed"}) = 1

C4_Witness ==
    /\ pc = "returned"
    /\ "BridgePaused" \in EventNames(events)
    /\ Len(selected) > 1
    /\ FailedAt # {}
    /\ "BridgeResumeFailed" \in EventNames(events)

\* C5: a selection of HalfKay targets only never calls pause_bridge and
\* never emits a BridgePause* or BridgeResume* event.
C5_HalfKayOnlyNoBridge ==
    AllHalfKay =>
        /\ pause_outcome = "NotCalled"
        /\ EventNames(events) \cap BridgeEvents = {}
        /\ g_log = <<>>

C5_Witness ==
    /\ AllHalfKay
    /\ Len(selected) > 1
    /\ pc = "returned"
    /\ FailedAt # {}

\* C6: over a guard's life, an explicit resume that succeeds clears the plan
\* and the drop then performs no further resume action; one that fails leaves
\* the plan intact and the drop performs exactly one more; a guard dropped
\* without explicit resume performs exactly one.
C6_GuardResumeThenDrop ==
    /\ g_calls = <<"Ok">> => (g_resume = NoPlan /\ Len(g_log) = 1)
    /\ (g_calls = <<"Err">> /\ g_state = "live") => (g_resume = g_init /\ Len(g_log) = 1)
    /\ (g_calls = <<"Err">> /\ g_state = "dropped") => Len(g_log) = 2
    /\ (g_calls = <<>> /\ g_state = "dropped") => Len(g_log) = 1

C6_Witness == g_calls = <<"Err">> /\ g_state = "dropped" /\ Len(g_log) = 2

\* C7: the returned value of a run that got past the pause gate: the original
\* error of a failing single target; else make_ambiguous if some error was
\* ambiguous; else make_multi_failed(number of failing targets, |selected|)
\* if any target failed; else Ok.
C7_ResultPrecedence ==
    Completed =>
        IF Len(selected) = 1 /\ FailedAt # {} THEN result = results[1]
        ELSE IF AmbiguousAt # {} THEN result.tag = "Err" /\ result.err.tag = "Ambiguous"
        ELSE IF FailedAt # {}
            THEN result = Err([tag |-> "MultiFailed", failed |-> Cardinality(FailedAt),
                               total |-> Len(selected)])
        ELSE result = Ok

C7_Witness ==
    /\ Completed
    /\ Len(selected) = 1
    /\ AmbiguousAt # {}
    /\ result = results[1]

\* C8: a multi-target run invokes run_target once per selected target, in
\* selection order, also after failures; a single-target failure ends the
\* loop and is the value returned.
C8_LoopContinuation ==
    Completed =>
        /\ Len(selected) > 1 => ran = [i \in 1..Len(selected) |-> i]
        /\ (Len(selected) = 1 /\ FailedAt # {}) => (ran = <<1>> /\ result = results[1])

C8_Witness ==
    /\ Completed
    /\ Len(selected) > 2
    /\ 1 \in FailedAt
    /\ ran = [i \in 1..Len(selected) |-> i]

\* C9: a multi-target run in which some error was ambiguous returns
\* make_ambiguous(m), m the message of the first ambiguous error in selection
\* order, whatever the later targets did.
C9_FirstAmbiguousSticky ==
    (Completed /\ Len(selected) > 1 /\ AmbiguousAt # {}) =>
        result = Err([tag |-> "Ambiguous", text |-> results[First(AmbiguousAt)].err.text])

C9_Witness ==
    /\ Completed
    /\ Len(selected) > 2
    /\ Cardinality(AmbiguousAt) = 2
    /\ \E i, j \in AmbiguousAt : results[i].err.text # results[j].err.text
    /\ results[Len(selected)] = Ok

\* C10: the resume block and the drop of the guard leave the value to return
\* as the target loop decided it; a failing resume only appends
\* BridgeResumeStart, BridgeResumeFailed to the events.
C10_ResumeKeepsResult ==
    [][(pc \in {"resume", "return"}) =>
          /\ result' = result
          /\ \/ events' = events
             \/ /\ pc = "resume"
                /\ Len(events') = Len(events) + 2
                /\ SubSeq(events', 1, Len(events)) = events
                /\ events'[Len(events) + 1] = Ev0("BridgeResumeStart")
                /\ events'[Len(events) + 2].ev =
                      (IF g_calls'[Len(g_calls')] = "Err" THEN "BridgeResumeFailed"
                                                          ELSE "BridgeResumed")]_vars

C10_Witness == pc = "returned" /\ g_calls = <<"Err">> /\ result = Ok

\* Write attempts on, and Retry events for, the block at address a.
WritesAt(a) == {i \in 1..Len(touches) : touches[i].op = "write_block" /\ touches[i].arg = a}
FailedWritesAt(a) == {i \in WritesAt(a) : ~touches[i].ok}
RetryAttempts(a) ==
    LET r == SelectSeq(events, LAMBDA e : e.ev = "Retry" /\ e.msg[1] = a)
    IN [i \in 1..Len(r) |-> r[i].msg[2]]
BlockAddrs == {blocks_to_write[i] : i \in 1..Len(blocks_to_write)}

\* C11: every block gets at most retries + 1 write attempts and at most
\* retries Retry events, numbered 1, 2, ...; retries + 1 failed attempts on a
\* block end the flash with WriteFailed{addr of that block, retries + 1} and
\* nothing is written after the last failed attempt; with retries = 0 no
\* Retry is emitted and the device is never reopened.
C11_BlockRetries ==
    /\ \A a \in BlockAddrs :
          /\ Cardinality(WritesAt(a)) <= retries + 1
          /\ Len(RetryAttempts(a)) <= retries
          /\ RetryAttempts(a) = [i \in 1..Len(RetryAttempts(a)) |-> i]
          /\ Cardinality(FailedWritesAt(a)) = retries + 1 =>
                /\ results = <<Err(FlashErr("WriteFailed", a, retries + 1))>>
                /\ touches[Len(touches)].op = "write_block"
                /\ touches[Len(touches)].arg = a
                /\ \A b \in BlockAddrs : b > a => WritesAt(b) = {}
                /\ pc = "returned" => result = Err(FlashErr("WriteFailed", a, retries + 1))
    /\ \A i \in 1..Len(results) : (results[i] # Ok /\ results[i].err.tag = "WriteFailed") =>
          /\ results[i].err.b = retries + 1
          /\ Cardinality(FailedWritesAt(results[i].err.a)) = retries + 1
    /\ retries = 0 =>
          /\ "Retry" \notin EventNames(events)
          /\ Cardinality({i \in 1..Len(touches) : touches[i].op = "open_by_path"}) <= 1

C11_Witness ==
    /\ pc = "returned"
    /\ retries >= 1
    /\ Len(blocks_to_write) > 1
    /\ Cardinality(FailedWritesAt(blocks_to_write[2])) = retries + 1
    /\ RetryAttempts(blocks_to_write[1]) = <<1>>
    /\ result = Err(FlashErr("WriteFailed", blocks_to_write[2], retries + 1))

\* The set difference now \ before seen by poll i of wait_for_new_halfkay.
NewAt(i) == {touches[i].arg[k] : k \in 1..Len(touches[i].arg)} \ before
WaitReturned == results # <<>>
LastPoll == Len(touches)

\* C12: wait_for_new_halfkay returns Ok(p) iff a poll observed a listing
\* with exactly one path outside before, p being that path; a poll with more
\* than one new path ends the wait with Ambiguous{that count}; a poll with no
\* new path ends it with Timeout only if the timeout has elapsed, and is
\* otherwise followed by another poll.
C12_WaitForNewHalfKay ==
    /\ WaitReturned <=> (tpc = "idle")
    /\ (WaitReturned /\ results[1] = Ok) <=>
          \E i \in 1..Len(touches) : touches[i].ok /\ Cardinality(NewAt(i)) = 1
    /\ \A i \in 1..Len(touches) :
          /\ (touches[i].ok /\ Cardinality(NewAt(i)) = 1) =>
                (i = LastPoll /\ results = <<Ok>> /\ NewAt(i) = {hk_path})
          /\ (touches[i].ok /\ Cardinality(NewAt(i)) > 1) =>
                (i = LastPoll /\ results = <<Err(WaitErr("Ambiguous", Cardinality(NewAt(i))))>>)
          /\ (touches[i].ok /\ NewAt(i) = {} /\ touches[i].elapsed) =>
                (i = LastPoll /\ results = <<Err(WaitErr("Timeout", 0))>>)
          /\ (touches[i].ok /\ NewAt(i) = {} /\ ~touches[i].elapsed) =>
                (~WaitReturned \/ i < LastPoll)
    /\ (WaitReturned /\ results[1] = Err(WaitErr("Timeout", 0))) =>
          (touches[LastPoll].ok /\ NewAt(LastPoll) = {} /\ touches[LastPoll].elapsed)

C12_Witness ==
    /\ results = <<Ok>>
    /\ Len(touches) > 1
    /\ before # {}
    /\ Len(touches[LastPoll].arg) > 1
    /\ hk_path \notin before

DistinctIds(l) == \A i, j \in 1..Len(l) : i # j => Target_id(l[i]) # Target_id(l[j])
SelectorResolved == call_ret # NoCall /\ call_ret.resolved # NoCall

\* C15: in a list of targets with pairwise distinct ids, the id of the
\* target at position i (counted from 0) parses to a selector, and
\* resolve_one of that selector on the list returns Ok(i).
C15_SelectorRoundTrip ==
    \A i \in 1..Len(call_args.targets) :
        (/\ DistinctIds(call_args.targets)
         /\ call_args.text = Target_id(call_args.targets[i])
         /\ call_ret # NoCall) =>
            /\ call_ret.parsed.ok
            /\ call_ret.resolved # NoCall => call_ret.resolved = SelOk(i - 1)

C15_Witness ==
    /\ SelectorResolved
    /\ Len(call_args.targets) = 3
    /\ DistinctIds(call_args.targets)
    /\ call_args.targets[1].kind = "Serial"
    /\ call_args.targets[3].kind = "HalfKay"
    /\ call_args.text = Target_id(call_args.targets[3])
    /\ call_ret.resolved = SelOk(2)

\* The positions (from 0) of the targets whose id equals s.
WithId(s) == {i - 1 : i \in {k \in 1..Len(call_args.targets) : Target_id(call_args.targets[k]) = s}}

\* C16: resolve_one(Index(n)) is Ok(n) when n < len and IndexOutOfRange
\* otherwise; resolve_one(Id(s)) is Ok(i) when i is the only position holding
\* a target with id s, NoMatch when there is none, MultipleMatches when there
\* are several.
C16_ResolveOne ==
    SelectorResolved =>
        LET sel == call_ret.parsed.v
            r == call_ret.resolved
            n == Len(call_args.targets)
        IN IF sel.tag = "Index"
           THEN IF sel.n < n THEN r = SelOk(sel.n)
                ELSE ~r.ok /\ r.err = SelectorErr("IndexOutOfRange", sel.n, n)
           ELSE /\ r.ok <=> Cardinality(WithId(sel.id)) = 1
                /\ r.ok => WithId(sel.id) = {r.v}
                /\ WithId(sel.id) = {} => (~r.ok /\ r.err.tag = "NoMatch")
                /\ Cardinality(WithId(sel.id)) > 1 => (~r.ok /\ r.err.tag = "MultipleMatches")

C16_Witness ==
    /\ SelectorResolved
    /\ call_ret.parsed.v.tag = "Id"
    /\ Cardinality(WithId(call_ret.parsed.v.id)) = 2
    /\ Len(call_args.targets) = 3
    /\ ~call_ret.resolved.ok
    /\ call_ret.resolved.err.tag = "MultipleMatches"

\* Positions of the targets of one kind, and of the Serial targets named p.
OfKind(kind) == {i \in 1..Len(call_args.targets) : call_args.targets[i].kind = kind}
NamedPort(p) == {i \in OfKind("Serial") : call_args.targets[i].name = p}
AutoReturned == call_ret # NoCall /\ call_args.selection = SelectAuto
TheTarget(S) == call_args.targets[CHOOSE i \in S : TRUE]
IsAmbiguousTarget(r) == ~r.ok /\ r.err.tag = "AmbiguousTarget"

\* C13: under Auto, a list holding exactly one HalfKay target selects that
\* target alone, wherever it stands, however many Serial targets there are
\* and whatever the port preference; TargetSelected carries its id when
\* emit_selected_event is set, and nothing is emitted otherwise.
C13_AutoSingleHalfKay ==
    (AutoReturned /\ Cardinality(OfKind("HalfKay")) = 1) =>
        /\ call_ret = SelOk(<<TheTarget(OfKind("HalfKay"))>>)
        /\ events = IF call_args.emit_selected_event
                    THEN <<Ev("TargetSelected", Target_id(TheTarget(OfKind("HalfKay"))), TRUE, <<>>)>>
                    ELSE <<>>

C13_Witness ==
    /\ AutoReturned
    /\ OfKind("HalfKay") = {2}
    /\ OfKind("Serial") = {1, 3}
    /\ call_args.serial_port = SomePort(call_args.targets[3].name)
    /\ call_args.emit_selected_event
    /\ Len(events) = 1

HexLoaded == hex.phase = "done" /\ hex.result.ok
HexFailedWith(tag, k) ==
    hex.phase = "done" /\ ~hex.result.ok /\ hex.result.err.tag = tag /\ hex.result.err.line_no = k
WrittenAddrs == {hex.writes[i].abs : i \in 1..Len(hex.writes)}
FinalValue(a) ==
    hex.writes[CHOOSE i \in 1..Len(hex.writes) :
                   /\ hex.writes[i].abs = a
                   /\ \A j \in (i + 1)..Len(hex.writes) : hex.writes[j].abs # a].b
ToWrite == {hex.blocks_to_write[k] : k \in 1..Len(hex.blocks_to_write)}

\* C17: every load that succeeds has address 0 as the first element of
\* blocks_to_write, also when no data record stored a byte in block 0.
C17_BlockZeroFirst ==
    HexLoaded => (hex.blocks_to_write # <<>> /\ hex.blocks_to_write[1] = 0)

C17_Witness ==
    /\ HexLoaded
    /\ WrittenAddrs # {}
    /\ \A a \in WrittenAddrs : a >= BLOCK_SIZE
    /\ Len(hex.blocks_to_write) = 2
    /\ hex.blocks_to_write[1] = 0

\* C18: after a successful load, the start of a block b > 0 is in
\* blocks_to_write iff some address of the block was stored to by a data
\* record and holds a final value other than 0xFF. (A block neither stored
\* to nor listed satisfies both sides trivially.)
C18_NonBlankBlocks ==
    HexLoaded =>
        \A b \in ({a \div BLOCK_SIZE : a \in WrittenAddrs} \cup {x \div BLOCK_SIZE : x \in ToWrite}) \ {0} :
            /\ b < CODE_SIZE \div BLOCK_SIZE
            /\ (b * BLOCK_SIZE \in ToWrite) <=>
                  \E a \in WrittenAddrs : a \div BLOCK_SIZE = b /\ FinalValue(a) # 255

C18_Witness ==
    /\ HexLoaded
    /\ \E i \in 1..Len(hex.writes) :
          /\ hex.writes[i].abs >= BLOCK_SIZE
          /\ hex.writes[i].b # 255
          /\ FinalValue(hex.writes[i].abs) = 255
          /\ (hex.writes[i].abs \div BLOCK_SIZE) * BLOCK_SIZE \notin ToWrite
    /\ Len(hex.blocks_to_write) = 1

\* A line that decodes to a record of the length its first byte announces.
IsRecordLine(line) ==
    line.kind = "bytes" /\ Len(line.bytes) >= 5 /\ Len(line.bytes) = 5 + line.bytes[1]
ChecksumMismatch(line) ==
    line.bytes[Len(line.bytes)] #
        (256 - (SumBytes(SubSeq(line.bytes, 1, Len(line.bytes) - 1)) % 256)) % 256

\* C19: a record line read by the load whose last byte is not the two's
\* complement (mod 256) of the sum of its other bytes ends the load with
\* InvalidChecksum for that line number, whatever its record type.
C19_ChecksumEnforced ==
    \A k \in 1..Len(hex.lines) :
        (IsRecordLine(hex.lines[k]) /\ ChecksumMismatch(hex.lines[k])) =>
            (k = Len(hex.lines) /\ HexFailedWith("InvalidChecksum", k))

C19_Witness ==
    /\ Len(hex.lines) = 3
    /\ IsRecordLine(hex.lines[3])
    /\ hex.lines[3].bytes[4] = 3
    /\ ChecksumMismatch(hex.lines[3])
    /\ HexFailedWith("InvalidChecksum", 3)

\* The extended address in force at line k: the last record of type 02 or
\* 04 with a two-byte payload before it.
ExtLinesBefore(k) ==
    {j \in 1..(k - 1) : IsRecordLine(hex.lines[j]) /\ hex.lines[j].bytes[1] = 2
                          /\ hex.lines[j].bytes[4] \in {2, 4}}
LastExtBefore(k) == CHOOSE j \in ExtLinesBefore(k) : \A h \in ExtLinesBefore(k) : h <= j
IsDataLine(k) ==
    IsRecordLine(hex.lines[k]) /\ ~ChecksumMismatch(hex.lines[k]) /\ hex.lines[k].bytes[4] = 0
\* The upper 16 bits the data of line k is based on, and where its byte i
\* (from 0) belongs: an address, or the error the claim names.
UpperOf(hi) ==
    IF hi >= FLEXSPI_BASE \div 65536 /\ hi < (FLEXSPI_BASE + CODE_SIZE) \div 65536
    THEN hi - FLEXSPI_BASE \div 65536 ELSE hi
PlaceOf(hi, offset, i) ==
    LET upper == UpperOf(hi) + (offset + i) \div 65536
        lower == (offset + i) % 65536
    IN IF upper > 65535 THEN [tag |-> "AddressOverflow", at |-> 0]
       ELSE IF upper > CODE_SIZE \div 65536 \/ upper * 65536 + lower >= CODE_SIZE
           THEN [tag |-> "AddressOutOfRange", at |-> 0]
       ELSE [tag |-> "Stored", at |-> upper * 65536 + lower]
WritesOfLine(k) == SelectSeq(hex.writes, LAMBDA w : w.line = k)

\* C20: the bytes of a data record that follows an extended linear address
\* record of value hi are stored, in order, at (hi << 16) + offset + i, made
\* zero-based when hi << 16 lies in [FLEXSPI_BASE, FLEXSPI_BASE + CODE_SIZE);
\* the first byte whose address exceeds 32 bits ends the load with
\* AddressOverflow, the first one outside [0, CODE_SIZE) with
\* AddressOutOfRange, both for that line.
C20_AddressMapping ==
    \A k \in 1..Len(hex.lines) :
        (IsDataLine(k) /\ ExtLinesBefore(k) # {} /\ hex.lines[LastExtBefore(k)].bytes[4] = 4) =>
            LET ext == hex.lines[LastExtBefore(k)].bytes
                hi == ext[5] * 256 + ext[6]
                rec == hex.lines[k].bytes
                offset == rec[2] * 256 + rec[3]
                len == rec[1]
                bad == {i \in 0..(len - 1) : PlaceOf(hi, offset, i).tag # "Stored"}
                stop == IF bad = {} THEN len ELSE CHOOSE i \in bad : \A j \in bad : i <= j
            IN /\ WritesOfLine(k) =
                     [n \in 1..stop |-> [line |-> k, abs |-> PlaceOf(hi, offset, n - 1).at,
                                         b |-> rec[4 + n]]]
               /\ bad # {} => (k = Len(hex.lines) /\ HexFailedWith(PlaceOf(hi, offset, stop).tag, k))
               /\ bad = {} => \A tag \in {"AddressOverflow", "AddressOutOfRange"} :
                                  ~HexFailedWith(tag, k)

C20_Witness ==
    /\ Len(hex.lines) = 2
    /\ IsDataLine(2)
    /\ ExtLinesBefore(2) = {1}
    /\ hex.lines[1].bytes[4] = 4
    /\ hex.lines[1].bytes[5] * 256 + hex.lines[1].bytes[6] = 24699
    /\ Len(hex.writes) = 1
    /\ hex.writes[1].abs = CODE_SIZE - 1
    /\ HexFailedWith("AddressOutOfRange", 2)

\* --------------------------------------------------------------- halfkay.rs
\* teensy41.rs lines 6-7
HEADER_SIZE == 64
PACKET_SIZE == HEADER_SIZE + BLOCK_SIZE

\* halfkay.rs 178-194. pkt is report[1..]: pkt[p] is the report's byte p + 1,
\* element p + 2 of the sequence. The report starts as zeros; the three
\* address bytes, the zeroed rest of the header and the data are written
\* over it. data has BLOCK_SIZE bytes (assert_eq at 179).
build_block_report_teensy41_bigEndian(block_addr, data) ==
    [i \in 1..(PACKET_SIZE + 1) |->
        LET p == i - 2 IN
        IF i = 1 THEN 0
        ELSE IF p = 0 THEN (block_addr \div 65536) % 256
        ELSE IF p = 1 THEN (block_addr \div 256) % 256
        ELSE IF p = 2 THEN block_addr % 256
        ELSE IF p < HEADER_SIZE THEN 0
        ELSE data[p - HEADER_SIZE + 1]]

build_block_report_teensy41(block_addr, data) ==
    [i \in 1..(PACKET_SIZE + 1) |->
        LET p == i - 2 IN
        IF i = 1 THEN 0
        ELSE IF p = 0 THEN block_addr % 256
        ELSE IF p = 1 THEN (block_addr \div 256) % 256
        ELSE IF p = 2 THEN (block_addr \div 65536) % 256
        ELSE IF p < HEADER_SIZE THEN 0
        ELSE data[p - HEADER_SIZE + 1]]

\* halfkay.rs 196-203
build_boot_report_teensy41 ==
    [i \in 1..(PACKET_SIZE + 1) |-> IF i - 2 \in {0, 1, 2} THEN 255 ELSE 0]

\* Block addresses and block contents handed to the builder.
ReportAddrs ==
    {0, 1, 255, 256, 1024, 2048, 65280, 65536, 1192960, 8125440, 11259375,
     16711680, 16777215, 16777216, 16778240, 287454020}
ReportData ==
    {[i \in 1..BLOCK_SIZE |-> 0], [i \in 1..BLOCK_SIZE |-> 255],
     [i \in 1..BLOCK_SIZE |-> i % 256], [i \in 1..BLOCK_SIZE |-> (i * 7) % 251]}

InitReport ==
    /\ InitGuardNone
    /\ InitLocals
    /\ InitIdle
    /\ selected = <<>>
    /\ call_args \in [tag : {"block"}, block_addr : ReportAddrs, data : ReportData]
                     \cup {[tag |-> "boot"]}
    /\ call_ret = NoCall
    /\ hex = NoCall

reportFrame == <<guardVars, runVars, optVars, targetVars, call_args, hex>>

BuildBlockReport ==
    /\ call_ret = NoCall
    /\ call_args.tag = "block"
    /\ call_ret' = [tag |-> "Report",
                    bytes |-> build_block_report_teensy41(call_args.block_addr, call_args.data)]
    /\ UNCHANGED reportFrame

BuildBootReport ==
    /\ call_ret = NoCall
    /\ call_args.tag = "boot"
    /\ call_ret' = [tag |-> "Report", bytes |-> build_boot_report_teensy41]
    /\ UNCHANGED reportFrame

NextReport == BuildBlockReport \/ BuildBootReport

SpecReport == InitReport /\ [][NextReport]_vars

\* C21: a block report has 1089 bytes: byte 0 is 0, bytes 1..3 are the low
\* 24 bits of the address, least significant first, bytes 4..64 are zero and
\* bytes 65..1088 are the 1024 data bytes; a boot report has 1089 bytes:
\* byte 0 is 0, bytes 1..3 are FF and all the others zero.
C21_ReportEnvelope ==
    call_ret.tag = "Report" =>
        LET r == call_ret.bytes IN
        /\ Len(r) = 1089
        /\ r[1] = 0
        /\ call_args.tag = "block" =>
              /\ r[2] + 256 * r[3] + 65536 * r[4] = call_args.block_addr % 16777216
              /\ \A i \in 2..4 : r[i] \in 0..255
              /\ \A i \in 5..65 : r[i] = 0
              /\ \A i \in 1..1024 : r[65 + i] = call_args.data[i]
        /\ call_args.tag = "boot" =>
              /\ \A i \in 2..4 : r[i] = 255
              /\ \A i \in 5..1089 : r[i] = 0

C21_Witness ==
    /\ call_ret.tag = "Report"
    /\ call_args.tag = "block"
    /\ call_args.block_addr = 1192960
    /\ call_ret.bytes[3] = 52
    /\ call_ret.bytes[4] = 18
    /\ call_ret.bytes[1089] = call_args.data[1024]
    /\ call_args.data[1024] # 0

\* ---------------------------------------- api.rs: flash of one Serial target
\* One Serial target, an image of one or two blocks and at most one retry:
\* longer block loops are those of SpecFlashHalfKay.
InitFlashSerial ==
    /\ InitFlash
    /\ \E n \in 1..MaxApiTargets : selected = <<Target("Serial", n)>>
    /\ Len(blocks_to_write) <= 2
    /\ retries <= 1

SpecFlashSerial == InitFlashSerial /\ [][NextFlash]_vars

\* The result of target i is the error flash_one_target builds from the
\* given failure of wait_for_new_halfkay.
WaitFailedWith(i, e) ==
    /\ results[i].tag = "Err"
    /\ results[i].err.tag = "AmbiguousTarget"
    /\ results[i].err.a = WaitHalfKayError_to_string(e)

\* C22: when the soft reboot of a Serial target succeeded and no new HalfKay
\* path appeared before the wait timeout, the target's error has kind
\* NoDevice; kind AmbiguousTarget is only returned when more than one new
\* path appeared.
C22_WaitTimeoutNoDevice ==
    \A i \in 1..Len(results) :
        /\ WaitFailedWith(i, WaitErr("Timeout", 0)) => FlashError_kind(results[i].err) = "NoDevice"
        /\ (results[i].tag = "Err" /\ FlashError_kind(results[i].err) = "AmbiguousTarget") =>
              \E n \in 2..MaxHidPaths : WaitFailedWith(i, WaitErr("Ambiguous", n))

\* Positions of the events of one name, and of the device accesses of one
\* operation, in the logs of a flash.
EventsAt(name) == {k \in 1..Len(events) : events[k].ev = name}
TouchesOf(op) == {k \in 1..Len(touches) : touches[k].op = op}
AllBlocksWritten ==
    /\ results # <<>>
    /\ Cardinality({k \in TouchesOf("write_block") : touches[k].ok}) = Len(blocks_to_write)

\* C23: once the last block of a HalfKay flash is written, with no_reboot
\* false a Boot event is emitted and the boot report sent once, whose
\* failure does not fail the target; with no_reboot true there is neither;
\* in both cases Done is the last event of the flash and the result is Ok.
C23_FlashCompletion ==
    /\ AllBlocksWritten =>
          /\ results = <<Ok>>
          /\ Cardinality(EventsAt("Boot")) = (IF no_reboot THEN 0 ELSE 1)
          /\ Cardinality(TouchesOf("boot_teensy41")) = (IF no_reboot THEN 0 ELSE 1)
          /\ \E d \in EventsAt("Done") :
                /\ EventsAt("Done") = {d}
                /\ events[d + 1] = Ev("TargetDone", TargetId(selected[1]), TRUE, <<>>)
                /\ EventsAt("TargetDone") = {d + 1}
                /\ \A k \in EventsAt("Boot") : k = d - 1
                /\ \A k \in EventsAt("Block") \cup EventsAt("Retry") \cup EventsAt("HalfKayOpen") : k < d
    /\ (EventsAt("Done") # {} \/ EventsAt("Boot") # {} \/ TouchesOf("boot_teensy41") # {})
          => AllBlocksWritten

C23_Witness ==
    /\ AllBlocksWritten
    /\ ~no_reboot
    /\ Len(blocks_to_write) = 2
    /\ \E k \in TouchesOf("boot_teensy41") : ~touches[k].ok
    /\ results = <<Ok>>
    /\ result = Ok

\* ------------------------------------- bridge_control: the pause, step by step
\* pause_oc_bridge as a sequence of host calls, for every method.
\* call_args holds the options and what the host answers; call_ret holds the
\* position in the code (at), the host calls made so far (log), the locals
\* of pause_process_fallback (i, pids, cmds), its return value (ppo) and the
\* BridgePause returned (ret).
HostCall(op, arg, ok) == [op |-> op, arg |-> arg, ok |-> ok]
PauseAt(st, at, calls) == [st EXCEPT !.at = at, !.log = st.log \o calls]
PauseReturn(st, calls, bp) == [st EXCEPT !.at = "done", !.log = st.log \o calls, !.ret = bp]
ProcessReturn(st, calls, ppo) ==
    [st EXCEPT !.at = "fallback_done", !.log = st.log \o calls, !.ppo = ppo]

InitPause ==
    /\ InitGuardNone
    /\ InitLocals
    /\ InitIdle
    /\ selected = <<>>
    /\ call_args \in [opts : {o \in BridgeControlOptions : o.enabled /\ o.method \in {"Auto", "Process"}},
                       obs : Observations]
    /\ call_ret = [at |-> "entry", log |-> <<>>, i |-> 1, pids |-> <<>>, cmds |-> 0,
                   ppo |-> NoCall, ret |-> NoCall]
    /\ hex = NoCall

pauseFrame == <<guardVars, runVars, optVars, targetVars, call_args, hex>>

\* mod.rs 187-211, and 286-296 for Process: the early return when disabled
\* and the dispatch on opts.method.
PauseDispatch ==
    /\ call_ret.at = "entry"
    /\ call_ret' =
         IF ~call_args.opts.enabled \/ call_args.opts.method = "None"
         THEN PauseReturn(call_ret, <<>>, BridgePause(NoGuard, "Skipped", "Disabled"))
         ELSE IF call_args.opts.method \in {"Auto", "Control"} THEN PauseAt(call_ret, "control", <<>>)
         ELSE IF call_args.opts.method = "Service" THEN PauseAt(call_ret, "status", <<>>)
         ELSE IF ~call_args.opts.allow_process_fallback
             THEN PauseReturn(call_ret, <<>>, BridgePause(NoGuard, "Failed", "process fallback disabled"))
         ELSE PauseAt(call_ret, "fallback", <<>>)
    /\ UNCHANGED pauseFrame

\* mod.rs 339: pause_auto goes on to the service only when control_pause
\* did not return Ok.
AfterControl_always(ok) == "status"

AfterControl(ok) == IF ok THEN "done" ELSE "status"

\* mod.rs 338-354 (pause_auto) and 214-241 (pause_control_only): the IPC
\* pause. The log keeps whether the bridge answered ok = true, paused =
\* true: control_pause returns Ok only on such an answer and also fails on
\* it when the answer says serial_open = true (ipc.rs 45-52).
PauseControl ==
    /\ call_ret.at = "control"
    /\ \E acked \in BOOLEAN :
       LET ok == call_args.obs.ipc
           calls == <<HostCall("control_pause", acked, ok)>> IN
       /\ ok => acked
       /\ call_ret' =
            IF AfterControl(ok) = "done"
            THEN PauseReturn(call_ret, calls, BridgePause(SomeGuard(ControlPlan), "Paused", "Control"))
            ELSE IF call_args.opts.method = "Control"
                THEN PauseReturn(call_ret, calls,
                         BridgePause(NoGuard, "Failed", "oc-bridge control pause failed"))
            ELSE PauseAt(call_ret, AfterControl(ok), calls)
    /\ UNCHANGED pauseFrame

\* mod.rs 391-402: the service statuses after which pause_auto goes on to
\* the process fallback.
FallsThrough_onQueryError(svc) == svc \in {"NotInstalled", "Err"}

FallsThrough(svc) == svc = "NotInstalled"

\* mod.rs 357, 385-409 (pause_auto) and 245, 268-283 (pause_service_only):
\* the service status query and the arms that return.
PauseServiceStatus ==
    /\ call_ret.at = "status"
    /\ LET svc == call_args.obs.svc
           calls == <<HostCall("service_status", svc, svc # "Err")>> IN
       call_ret' =
         IF call_args.opts.method = "Service" /\ svc = "NotInstalled"
         THEN PauseReturn(call_ret, calls, BridgePause(NoGuard, "Skipped", "NotInstalled"))
         ELSE IF FallsThrough(svc)
         THEN IF ~call_args.opts.allow_process_fallback
              THEN PauseReturn(call_ret, calls, BridgePause(NoGuard, "Skipped", "NotInstalled"))
              ELSE PauseAt(call_ret, "fallback", calls)
         ELSE IF svc = "Running" THEN PauseAt(call_ret, "stop", calls)
         ELSE IF svc = "Stopped"
             THEN PauseReturn(call_ret, calls, BridgePause(NoGuard, "Skipped", "NotRunning"))
         ELSE PauseReturn(call_ret, calls, BridgePause(NoGuard, "Failed", "unable to query bridge service"))
    /\ UNCHANGED pauseFrame

\* mod.rs 358-384 and 246-267: what the caller returns after stop_service.
StopServiceResult_keepsGuard(ok) ==
    IF ok THEN BridgePause(SomeGuard(ServicePlan), "Paused", "Service")
    ELSE BridgePause(SomeGuard(ServicePlan), "Failed", "unable to stop bridge service")

StopServiceResult(ok) ==
    IF ok THEN BridgePause(SomeGuard(ServicePlan), "Paused", "Service")
    ELSE BridgePause(NoGuard, "Failed", "unable to stop bridge service")

\* mod.rs 358-384: the service is running and is stopped. service.rs
\* 205-224: stop_service queries the status again, returns the error of
\* that query, returns Ok without a command when the service is no longer
\* installed, and otherwise issues the stop command and waits for the
\* stopped state; the log keeps whether the command was issued.
PauseStopService ==
    /\ call_ret.at = "stop"
    /\ \E issued \in BOOLEAN :
       LET ok == call_args.obs.stop
           calls == <<HostCall("stop_service", issued, ok)>> IN
       call_ret' = PauseReturn(call_ret, calls, StopServiceResult(ok))
    /\ UNCHANGED pauseFrame

\* process.rs 56-60 and 86-104: without the process-fallback feature nothing
\* is enumerated; with it the oc-bridge processes are listed.
PauseFindProcesses ==
    /\ call_ret.at = "fallback"
    /\ LET procs == call_args.obs.procs
           calls == <<HostCall("find_oc_bridge_processes", Len(procs), TRUE)>> IN
       call_ret' =
         IF ~call_args.obs.feature
         THEN ProcessReturn(call_ret, <<>>,
                  [outcome |-> "Skipped", detail |-> "ProcessNotRestartable", cmds |-> 0])
         ELSE IF Len(procs) = 0
             THEN ProcessReturn(call_ret, calls, [outcome |-> "Skipped", detail |-> "NotRunning", cmds |-> 0])
         ELSE [PauseAt(call_ret, "collect", calls) EXCEPT !.i = 1, !.pids = <<>>, !.cmds = 0]
    /\ UNCHANGED pauseFrame

\* process.rs 110-112: a process without a known executable path ends the
\* fallback.
MissingExe_ignored(procs, k) == FALSE

MissingExe(procs, k) == ~procs[k]

\* process.rs 106-120: one iteration of the loop that records the pid and
\* the relaunch command of each process.
PauseCollect ==
    /\ call_ret.at = "collect"
    /\ LET procs == call_args.obs.procs
           k == call_ret.i
           st == [call_ret EXCEPT !.pids = Append(call_ret.pids, k)] IN
       call_ret' =
         IF MissingExe(procs, k)
         THEN ProcessReturn(st, <<>>, [outcome |-> "Skipped", detail |-> "ProcessNotRestartable", cmds |-> 0])
         ELSE [st EXCEPT !.cmds = st.cmds + 1, !.i = k + 1,
                         !.at = IF k = Len(procs) THEN "terminate" ELSE "collect"]
    /\ UNCHANGED pauseFrame

\* process.rs 122-139 and stop_processes 193-220: every listed process
\* that is still there (get_process_by_pid, 200) is asked to exit, then the
\* wait for their exit succeeds or times out.
PauseStopProcesses ==
    /\ call_ret.at = "terminate"
    /\ \E present \in SUBSET (1..Len(call_args.obs.procs)) :
       LET procs == call_args.obs.procs
           calls == SelectSeq([k \in 1..Len(procs) |-> HostCall("kill", k, TRUE)],
                              LAMBDA c : c.arg \in present) IN
       call_ret' =
         IF call_args.obs.kill
         THEN ProcessReturn(call_ret, calls, [outcome |-> "Paused", detail |-> "Process", cmds |-> call_ret.cmds])
         ELSE ProcessReturn(call_ret, calls,
                  [outcome |-> "Failed", detail |-> "unable to stop oc-bridge process", cmds |-> 0])
    /\ UNCHANGED pauseFrame

\* mod.rs 298-329 (pause_process_only) and 411-433 (pause_auto): the
\* caller's match on the ProcessPauseOutcome.
PauseFallbackReturn ==
    /\ call_ret.at = "fallback_done"
    /\ LET ppo == call_ret.ppo IN
       call_ret' = PauseReturn(call_ret, <<>>,
         CASE ppo.outcome = "Paused" -> BridgePause(SomeGuard(ProcessesPlan(ppo.cmds)), "Paused", ppo.detail)
           [] ppo.outcome = "Failed" -> BridgePause(NoGuard, "Failed", ppo.detail)
           [] ppo.outcome = "Skipped" ->
                IF call_args.opts.method = "Auto" \/ ppo.detail = "NotRunning"
                THEN BridgePause(NoGuard, "Skipped", ppo.detail)
                ELSE BridgePause(NoGuard, "Failed", "process fallback unavailable"))
    /\ UNCHANGED pauseFrame

NextPause ==
    \/ PauseDispatch
    \/ PauseControl
    \/ PauseServiceStatus
    \/ PauseStopService
    \/ PauseFindProcesses
    \/ PauseCollect
    \/ PauseStopProcesses
    \/ PauseFallbackReturn

SpecPause == InitPause /\ [][NextPause]_vars

\* pause_oc_bridge for every BridgeControlOptions, the disabled ones
\* included.
InitPauseAll ==
    /\ InitGuardNone
    /\ InitLocals
    /\ InitIdle
    /\ selected = <<>>
    /\ call_args \in [opts : BridgeControlOptions, obs : Observations]
    /\ call_ret = [at |-> "entry", log |-> <<>>, i |-> 1, pids |-> <<>>, cmds |-> 0,
                   ppo |-> NoCall, ret |-> NoCall]
    /\ hex = NoCall

SpecPauseAll == InitPauseAll /\ [][NextPause]_vars

\* The host calls of one operation made so far, by position in the log.
CallsOf(op) == {k \in 1..Len(call_ret.log) : call_ret.log[k].op = op}
PauseIsAuto == call_args.opts.method = "Auto"
PauseDone == call_ret.at = "done"
StepwiseAgrees == PauseDone => call_ret.ret = pause_oc_bridge(call_args.opts, call_args.obs)
ControlFailedBefore(k) ==
    \E j \in CallsOf("control_pause") : j < k /\ ~call_ret.log[j].ok
NotInstalledBefore(k) ==
    \E j \in CallsOf("service_status") : j < k /\ call_ret.log[j].arg = "NotInstalled"

\* C24: in pause_auto a service stop is attempted only after the IPC pause
\* failed, and processes are terminated only after the IPC pause failed,
\* the service was observed NotInstalled and allow_process_fallback is
\* true; a Paused outcome names the strategy that paused the bridge and the
\* guard's resume plan is the plan of that strategy.
C24_AutoStrategyOrder ==
    PauseIsAuto =>
        /\ \A k \in CallsOf("stop_service") : ControlFailedBefore(k)
        /\ \A k \in CallsOf("kill") :
              /\ ControlFailedBefore(k)
              /\ NotInstalledBefore(k)
              /\ call_args.opts.allow_process_fallback
        /\ (PauseDone /\ call_ret.ret.outcome = "Paused") =>
              LET last == call_ret.log[Len(call_ret.log)]
                  plan == call_ret.ret.guard.resume IN
              /\ call_ret.ret.guard.some
              /\ CASE call_ret.ret.detail = "Control" ->
                        /\ plan = ControlPlan
                        /\ last = HostCall("control_pause", TRUE, TRUE)
                        /\ CallsOf("stop_service") \cup CallsOf("kill") = {}
                   [] call_ret.ret.detail = "Service" ->
                        /\ plan = ServicePlan
                        /\ last.op = "stop_service" /\ last.ok
                        /\ CallsOf("kill") = {}
                   [] call_ret.ret.detail = "Process" ->
                        /\ plan = ProcessesPlan(Len(call_args.obs.procs))
                        /\ last.op \in {"kill", "find_oc_bridge_processes"}
                        /\ call_args.obs.kill
                        /\ CallsOf("stop_service") = {}
                   [] OTHER -> FALSE

C24_Witness ==
    /\ PauseIsAuto
    /\ PauseDone
    /\ call_ret.ret.outcome = "Paused"
    /\ call_ret.ret.detail = "Process"
    /\ Len(call_args.obs.procs) = 2
    /\ Cardinality(CallsOf("kill")) = 2

\* C25: in pause_auto, when the IPC pause fails and the service status
\* query returns an error, the outcome is Failed without a guard, and no
\* process is enumerated or terminated, whatever allow_process_fallback is.
C25_AutoFailSafe ==
    (/\ PauseIsAuto
     /\ \E k \in CallsOf("service_status") : ~call_ret.log[k].ok /\ ControlFailedBefore(k))
        => /\ PauseDone
           /\ call_ret.ret.outcome = "Failed"
           /\ ~call_ret.ret.guard.some
           /\ call_ret.ppo = NoCall
           /\ CallsOf("find_oc_bridge_processes") \cup CallsOf("kill") = {}

C25_Witness ==
    /\ PauseIsAuto
    /\ PauseDone
    /\ call_args.opts.allow_process_fallback
    /\ call_args.obs.feature
    /\ call_args.obs.procs = <<TRUE>>
    /\ call_args.obs.kill
    /\ \E k \in CallsOf("service_status") : ~call_ret.log[k].ok
    /\ call_ret.ret.outcome = "Failed"

\* C26: when a discovered oc-bridge process has no known executable path,
\* pause_process_fallback returns Skipped(ProcessNotRestartable) and no
\* process was sent a termination request, the restartable ones listed
\* before it included.
C26_NoKillUnlessRestartable ==
    (\E k \in 1..Len(call_args.obs.procs) : ~call_args.obs.procs[k]) =>
        /\ CallsOf("kill") = {}
        /\ call_ret.ppo # NoCall =>
              (call_ret.ppo.outcome = "Skipped" /\ call_ret.ppo.detail = "ProcessNotRestartable")

C26_Witness ==
    /\ call_args.obs.feature
    /\ call_args.obs.procs = <<TRUE, FALSE>>
    /\ CallsOf("find_oc_bridge_processes") # {}
    /\ call_ret.pids = <<1, 2>>
    /\ call_ret.ppo # NoCall
    /\ call_ret.ppo.detail = "ProcessNotRestartable"

\* -------------------------------------------------- bridge_control/ipc.rs
\* The first non-empty line of the bridge's answer, as the sequence of its
\* "key":value members; a value is true, false or null.
JsonField(key, val) == [key |-> key, val |-> val]
ControlLines ==
    {SelectSeq(<<JsonField("ok", a), JsonField("paused", b), JsonField("serial_open", c)>>,
               LAMBDA f : f.val # "absent") :
        a \in {"true", "false", "null", "absent"}, b \in {"true", "false", "null", "absent"},
        c \in {"true", "false", "null", "absent"}}
contains(line, key, val) == \E k \in 1..Len(line) : line[k] = JsonField(key, val)
ControlResp(ok, paused, serial_open) == [ok |-> ok, paused |-> paused, serial_open |-> serial_open]

\* ipc.rs 82-90, 135: serde_json::from_str::<ControlRespJson>. ok and paused
\* must be booleans; serial_open is optional and may be null.
from_str_ControlRespJson(line) ==
    IF /\ \E v \in {"true", "false"} : contains(line, "ok", v)
       /\ \E v \in {"true", "false"} : contains(line, "paused", v)
    THEN SelOk(ControlResp(contains(line, "ok", "true"), contains(line, "paused", "true"),
                           IF contains(line, "serial_open", "true") THEN "Some(true)"
                           ELSE IF contains(line, "serial_open", "false") THEN "Some(false)"
                           ELSE "None"))
    ELSE SelFail("json")

\* ipc.rs 130-166; cli is the build feature.
parse_control_response(line, cli) ==
    IF cli /\ from_str_ControlRespJson(line).ok
    THEN from_str_ControlRespJson(line).v
    ELSE ControlResp(contains(line, "ok", "true"), contains(line, "paused", "true"),
                     IF contains(line, "serial_open", "true") THEN "Some(true)"
                     ELSE IF contains(line, "serial_open", "false") THEN "Some(false)"
                     ELSE "None")

\* ipc.rs 31-54, on the result of control_send (32): a transport error
\* (sent.ok false) or the parsed response.
control_pause_ignoresSerial(sent) ==
    IF ~sent.ok THEN SelFail("oc-bridge control connect")
    ELSE IF ~sent.v.ok THEN SelFail("unknown error")
    ELSE IF ~sent.v.paused THEN SelFail("bridge did not enter paused state")
    ELSE SelOk("unit")

control_pause(sent) ==
    IF ~sent.ok THEN SelFail("oc-bridge control connect")
    ELSE IF ~sent.v.ok THEN SelFail("unknown error")
    ELSE IF ~sent.v.paused THEN SelFail("bridge did not enter paused state")
    ELSE IF sent.v.serial_open = "Some(true)"
        THEN SelFail("bridge reports serial_open=true after pause")
    ELSE SelOk("unit")

InitControl ==
    /\ InitGuardNone
    /\ InitLocals
    /\ InitIdle
    /\ selected = <<>>
    /\ call_args \in [delivered : BOOLEAN, line : ControlLines, cli : BOOLEAN,
                       opts : {o \in BridgeControlOptions : o.enabled /\ o.method = "Control"}]
    /\ call_ret = NoCall
    /\ hex = NoCall

\* ipc.rs 31-54 with control_send (92-128), called by pause_control_only
\* (mod.rs 214-241).
ControlPause ==
    /\ call_ret = NoCall
    /\ LET sent == IF call_args.delivered
                   THEN SelOk(parse_control_response(call_args.line, call_args.cli))
                   ELSE SelFail("io")
           r == control_pause(sent) IN
       call_ret' = [tag |-> "ControlPause", result |-> r,
                    pause |-> pause_control_only(call_args.opts, [ipc |-> r.ok])]
    /\ UNCHANGED <<guardVars, runVars, optVars, targetVars, call_args, hex>>

NextControl == ControlPause

SpecControl == InitControl /\ [][NextControl]_vars

\* C27: control_pause returns Ok iff a response arrived whose ok is true,
\* whose paused is true and whose serial_open is absent (or null) or false;
\* in every other case it is an error and the pause is not Paused(Control).
C27_ControlPauseAcceptance ==
    call_ret.tag = "ControlPause" =>
        LET has(key, val) == \E k \in 1..Len(call_args.line) :
                                 call_args.line[k].key = key /\ call_args.line[k].val = val
            accepted == /\ call_args.delivered
                        /\ has("ok", "true")
                        /\ has("paused", "true")
                        /\ ~has("serial_open", "true")
        IN /\ call_ret.result.ok <=> accepted
           /\ (call_ret.pause.outcome = "Paused" /\ call_ret.pause.detail = "Control") <=> accepted

C27_Witness ==
    /\ call_ret.tag = "ControlPause"
    /\ call_args.delivered
    /\ call_args.line = <<JsonField("ok", "true"), JsonField("paused", "true"),
                           JsonField("serial_open", "true")>>
    /\ ~call_ret.result.ok
    /\ call_ret.pause.outcome = "Failed"

\* C28: in run_targets_with_bridge every TargetStart{id} is followed by
\* exactly one TargetDone{id}, with no other TargetStart and no
\* BridgeResume* event in between; TargetDone.ok is true iff run_target
\* returned Ok, and it carries a message iff ok is false.
C28_TargetEventPairing ==
    /\ \A k \in EventsAt("TargetStart") :
          LET n == Cardinality({j \in EventsAt("TargetStart") : j <= k})
              dones == {d \in EventsAt("TargetDone") : events[d].tid = events[k].tid}
          IN /\ \E d \in dones :
                   /\ dones = {d}
                   /\ d > k
                   /\ \A j \in (k + 1)..(d - 1) :
                         events[j].ev \notin {"TargetStart", "TargetDone", "BridgeResumeStart",
                                               "BridgeResumed", "BridgeResumeFailed"}
                   /\ events[d].ok <=> results[n] = Ok
                   /\ (events[d].msg # <<>>) <=> ~events[d].ok
             /\ events[k].tid = TargetId(selected[ran[n]])
    /\ Cardinality(EventsAt("TargetDone")) = Cardinality(EventsAt("TargetStart"))

C28_Witness ==
    /\ Cardinality(EventsAt("TargetStart")) = 2
    /\ results[1] # Ok
    /\ results[2] = Ok
    /\ EventsAt("BridgeResumed") # {}
    /\ pc = "returned"

Earlier(S, T) == \A t \in T : \E x \in S : x < t

\* C29: the flash of a Serial target takes the HID path snapshot before it
\* triggers the soft reboot, emits SoftReboot after a successful reboot,
\* then HalfKayAppeared, then opens the device and emits HalfKayOpen, then
\* the Block events; a failed soft reboot emits SoftRebootSkipped and fails
\* the target without HalfKayAppeared, HalfKayOpen or Block.
C29_SerialFlashOrder ==
    LET reboots == TouchesOf("soft_reboot_port")
        snapshots == {k \in TouchesOf("list_paths") : touches[k].ok} IN
    /\ Cardinality(reboots) <= 1
    /\ Earlier(snapshots, reboots)
    /\ Earlier(reboots, TouchesOf("open_by_path"))
    /\ Earlier(TouchesOf("open_by_path"), TouchesOf("write_block"))
    /\ (EventsAt("SoftReboot") # {}) <=> (\E k \in reboots : touches[k].ok)
    /\ (EventsAt("SoftRebootSkipped") # {}) <=> (\E k \in reboots : ~touches[k].ok)
    /\ Earlier(EventsAt("SoftReboot"), EventsAt("HalfKayAppeared"))
    /\ Earlier(EventsAt("HalfKayAppeared"), EventsAt("HalfKayOpen"))
    /\ Earlier(EventsAt("HalfKayOpen"), EventsAt("Block"))
    /\ (TouchesOf("open_by_path") # {}) => (EventsAt("HalfKayAppeared") # {})
    /\ (EventsAt("HalfKayOpen") # {}) <=> (\E k \in TouchesOf("open_by_path") : touches[k].ok)
    /\ \A k \in EventsAt("SoftRebootSkipped") :
          /\ results = <<Err(FlashErr("SoftRebootFailed", selected[1].name, "serial"))>>
          /\ events[k + 1].ev = "TargetDone" /\ ~events[k + 1].ok
          /\ EventsAt("HalfKayAppeared") \cup EventsAt("HalfKayOpen") \cup EventsAt("Block")
                \cup EventsAt("SoftReboot") = {}
          /\ TouchesOf("open_by_path") \cup TouchesOf("write_block") = {}

C29_Witness ==
    /\ results = <<Ok>>
    /\ Cardinality(EventsAt("Block")) = 2
    /\ EventsAt("HalfKayAppeared") # {}
    /\ touches[1].op = "list_paths"
    /\ touches[2].op = "soft_reboot_port"
    /\ before # {}

\* ------------------------------------- Windows overlapped write of a report
\* One call of the write-once function, in its two copies: halfkay.rs
\* 278-339 (win32_write_report_once, the one write_block_teensy41 and
\* boot_teensy41 reach) and halfkay/win32.rs 94-149 (write_report_once).
\* call_args: the copy, and what WriteFile, WaitForSingleObject and the final
\* GetOverlappedResult answer. call_ret: the position (at), the kernel's
\* write (io: none, pending, complete), the stack-allocated OVERLAPPED (ov:
\* live until the function returns), whether the wait timed out, whether
\* CancelIoEx was called, whether the kernel completed the write after the
\* OVERLAPPED was gone (dangling), and the value returned.
WriteOnceCopies == {"halfkay.rs", "halfkay/win32.rs"}
OnceReturn(st, res) == [st EXCEPT !.at = "returned", !.ov = "dead", !.result = res]

InitWriteOnce ==
    /\ InitGuardNone
    /\ InitLocals
    /\ InitIdle
    /\ selected = <<>>
    /\ call_args \in [copy : WriteOnceCopies, write : {"done", "pending", "error"},
                       wait : {"WAIT_OBJECT_0", "WAIT_TIMEOUT", "WAIT_FAILED"},
                       written : {"ok", "short", "failed"}]
    /\ call_ret = [at |-> "start", io |-> "none", ov |-> "live", timed_out |-> FALSE,
                   cancel |-> FALSE, dangling |-> FALSE, result |-> NoCall]
    /\ hex = NoCall

onceFrame == <<guardVars, runVars, optVars, targetVars, call_args, hex>>

\* halfkay.rs 285-305, win32.rs 101-118: ResetEvent, WriteFile.
OnceWriteFile ==
    /\ call_ret.at = "start"
    /\ call_ret' =
         CASE call_args.write = "done" -> [call_ret EXCEPT !.at = "result", !.io = "complete"]
           [] call_args.write = "pending" -> [call_ret EXCEPT !.at = "wait", !.io = "pending"]
           [] call_args.write = "error" -> OnceReturn(call_ret, SelFail("WriteFile"))
    /\ UNCHANGED onceFrame

\* The kernel completes the pending write (cancelled or not) and stores the
\* result into the OVERLAPPED it was given.
KernelCompletes ==
    /\ call_ret.io = "pending"
    /\ call_ret' = [call_ret EXCEPT !.io = "complete", !.dangling = (call_ret.ov = "dead")]
    /\ UNCHANGED onceFrame

\* halfkay.rs 307-320, win32.rs 120-136: WaitForSingleObject on the event.
\* WAIT_OBJECT_0 needs the write to be complete.
OnceWait ==
    /\ call_ret.at = "wait"
    /\ call_args.wait = "WAIT_OBJECT_0" => call_ret.io = "complete"
    /\ call_ret' =
         CASE call_args.wait = "WAIT_OBJECT_0" -> [call_ret EXCEPT !.at = "result"]
           [] call_args.wait = "WAIT_TIMEOUT" -> [call_ret EXCEPT !.at = "cancel", !.timed_out = TRUE]
           [] call_args.wait = "WAIT_FAILED" -> OnceReturn(call_ret, SelFail("WaitForSingleObject"))
    /\ UNCHANGED onceFrame

\* halfkay.rs 309-313: CancelIoEx, then return. win32.rs 124: CancelIoEx,
\* then the wait of 126-127.
OnceCancel ==
    /\ call_ret.at = "cancel"
    /\ call_ret' =
         IF call_args.copy = "halfkay.rs"
         THEN OnceReturn([call_ret EXCEPT !.cancel = TRUE], SelFail("WriteFile timeout"))
         ELSE [call_ret EXCEPT !.cancel = TRUE, !.at = "await"]
    /\ UNCHANGED onceFrame

\* win32.rs 126-129: GetOverlappedResult with bWait = 1 returns once the
\* write is complete.
OnceAwaitCancel ==
    /\ call_ret.at = "await"
    /\ call_ret.io = "complete"
    /\ call_ret' = OnceReturn(call_ret, SelFail("WriteFile timeout"))
    /\ UNCHANGED onceFrame

\* halfkay.rs 323-337, win32.rs 139-147: GetOverlappedResult without wait.
OnceResult ==
    /\ call_ret.at = "result"
    /\ call_ret' =
         CASE call_args.written = "ok" -> OnceReturn(call_ret, SelOk("unit"))
           [] call_args.written = "short" -> OnceReturn(call_ret, SelFail("short write"))
           [] call_args.written = "failed" -> OnceReturn(call_ret, SelFail("GetOverlappedResult"))
    /\ UNCHANGED onceFrame

NextWriteOnce ==
    \/ OnceWriteFile
    \/ KernelCompletes
    \/ OnceWait
    \/ OnceCancel
    \/ OnceAwaitCancel
    \/ OnceResult

SpecWriteOnce == InitWriteOnce /\ [][NextWriteOnce]_vars

\* C30: whenever the wait for a pending write timed out, the function has
\* cancelled the write and the write is complete when the function returns
\* and its OVERLAPPED goes out of scope: no timeout path returns with the
\* write still pending.
C30_CancelThenAwait ==
    (call_ret.at = "returned" /\ call_ret.timed_out) =>
        /\ call_ret.cancel
        /\ ~call_ret.dangling
        /\ call_ret.io = "complete"

\* --------------------------------------- api.rs: discover_targets_for_flash
\* The discovery loop on its own, in milliseconds of start.elapsed().
\* call_args holds opts.wait and opts.wait_timeout; call_ret the position
\* in the function, the clock, a log of the polls (when each was started,
\* what discover_targets returned, the value of start.elapsed() read after
\* it) and the returned value; events receives what on_event is given.
MaxDiscoverPolls == 3

\* line 325: std::thread::sleep(Duration::from_millis(250))
DiscoverSleepMs == 250

NoTimeout == [some |-> FALSE, ms |-> 0]
SomeTimeout(t) == [some |-> TRUE, ms |-> t]
DiscoverTimeouts ==
    {NoTimeout} \cup {SomeTimeout(t) : t \in {0, DiscoverSleepMs, DiscoverSleepMs + 50,
                                             DiscoverSleepMs * (MaxDiscoverPolls - 1)}}

\* What targets::discover_targets answers: nothing, one HalfKay, a HalfKay
\* and a Serial target.
DiscoverAnswers ==
    {<<>>, <<Target("HalfKay", 1)>>, <<Target("HalfKay", 1), Target("Serial", 1)>>}

\* How long one call of discover_targets takes, and how long the sleep may
\* last beyond the interval asked for.
DiscoverDurations == {0, 100}
SleepOvershoots == {0, 50}

DiscoverOk(targets) == [tag |-> "Ok", v |-> targets]
DiscoverPollRec(started, ok, targets, elapsed) ==
    [started |-> started, ok |-> ok, targets |-> targets, elapsed |-> elapsed]

InitDiscover ==
    /\ InitGuardNone
    /\ InitLocals
    /\ InitIdle
    /\ selected = <<>>
    /\ call_args \in [wait : BOOLEAN, wait_timeout : DiscoverTimeouts]
    /\ call_ret = [at |-> "entry", clock |-> 0, polls |-> <<>>, result |-> Pending]
    /\ hex = NoCall

discoverFrame ==
    UNCHANGED <<guardVars, pc, selected, idx, failed, fatal_err, ambiguous_message, result,
                pause_outcome, ran, results, optVars, targetVars, call_args, hex>>

\* lines 296-298: DiscoverStart, start = Instant::now().
DiscoverEnter ==
    /\ call_ret.at = "entry"
    /\ events' = Append(events, Ev0("DiscoverStart"))
    /\ call_ret' = [call_ret EXCEPT !.at = "poll"]
    /\ discoverFrame

\* lines 303-311: one TargetDetected per target, index from 0, then
\* DiscoverDone{count}.
DiscoverEvents(targets) ==
    [i \in 1..(Len(targets) + 1) |->
        IF i <= Len(targets)
        THEN Ev("TargetDetected", TargetId(targets[i]), TRUE, <<i - 1>>)
        ELSE Ev("DiscoverDone", <<>>, TRUE, <<Len(targets)>>)]

\* lines 319-323: the timeout test, taken only when wait_timeout is Some.
TimedOut_strict(elapsed, wait_timeout) ==
    wait_timeout.some /\ elapsed > wait_timeout.ms

TimedOut(elapsed, wait_timeout) ==
    wait_timeout.some /\ elapsed >= wait_timeout.ms

\* lines 299-324: one iteration of the loop up to the sleep. A loop still
\* running after MaxDiscoverPolls polls is not followed further ("beyond"):
\* it has not returned.
DiscoverPoll ==
    /\ call_ret.at = "poll"
    /\ \E took \in DiscoverDurations :
         LET now == call_ret.clock + took IN
         \/ /\ call_ret' = [call_ret EXCEPT
                   !.at = "returned", !.clock = now,
                   !.polls = Append(@, DiscoverPollRec(call_ret.clock, FALSE, <<>>, now)),
                   !.result = Err(FlashErr("DiscoveryFailed", "hid", 0))]
            /\ UNCHANGED events
         \/ \E targets \in DiscoverAnswers :
              LET log == Append(call_ret.polls,
                                DiscoverPollRec(call_ret.clock, TRUE, targets, now)) IN
              /\ events' = events \o DiscoverEvents(targets)
              /\ IF targets # <<>>
                 THEN call_ret' = [at |-> "returned", clock |-> now, polls |-> log,
                                   result |-> DiscoverOk(targets)]
                 ELSE IF ~call_args.wait
                 THEN call_ret' = [at |-> "returned", clock |-> now, polls |-> log,
                                   result |-> Err(FlashErr("NoTargets", 0, 0))]
                 ELSE IF TimedOut(now, call_args.wait_timeout)
                 THEN call_ret' = [at |-> "returned", clock |-> now, polls |-> log,
                                   result |-> Err(FlashErr("NoTargets", 0, 0))]
                 ELSE call_ret' = [at |-> IF Len(log) < MaxDiscoverPolls
                                          THEN "sleep" ELSE "beyond",
                                   clock |-> now, polls |-> log, result |-> Pending]
    /\ discoverFrame

\* line 325: the sleep lasts at least the interval.
DiscoverSleep ==
    /\ call_ret.at = "sleep"
    /\ \E over \in SleepOvershoots :
         call_ret' = [call_ret EXCEPT !.at = "poll", !.clock = @ + DiscoverSleepMs + over]
    /\ UNCHANGED events
    /\ discoverFrame

NextDiscover ==
    \/ DiscoverEnter
    \/ DiscoverPoll
    \/ DiscoverSleep

\* The function runs on the caller's thread and neither discover_targets
\* nor the sleep blocks for ever: a step that can be taken is taken.
SpecDiscover == InitDiscover /\ [][NextDiscover]_vars /\ WF_vars(NextDiscover)

DiscoverReturned == call_ret.at = "returned"
DiscoverLog == call_ret.polls
RECURSIVE ExpectedDiscoverEvents(_)
ExpectedDiscoverEvents(log) ==
    IF log = <<>> THEN <<>>
    ELSE LET p == Head(log)
             n == Len(p.targets) IN
         (IF p.ok
          THEN [i \in 1..n |-> [ev |-> "TargetDetected", tid |-> TargetId(p.targets[i]),
                                ok |-> TRUE, msg |-> <<i - 1>>]]
               \o <<[ev |-> "DiscoverDone", tid |-> <<>>, ok |-> TRUE, msg |-> <<n>>]>>
          ELSE <<>>)
         \o ExpectedDiscoverEvents(Tail(log))

C31_Safety ==
    LET log == DiscoverLog
        n == Len(log)
        w == call_args.wait
        t == call_args.wait_timeout IN
    /\ call_ret.at # "entry" =>
          events = <<Ev0("DiscoverStart")>> \o ExpectedDiscoverEvents(log)
    /\ call_ret.at = "entry" => events = <<>>
    /\ ~w => n <= 1
    /\ \A k \in 1..n :
          /\ (log[k].ok /\ log[k].targets # <<>>) =>
                (k = n /\ call_ret.result = DiscoverOk(log[k].targets))
          /\ (log[k].ok /\ log[k].targets = <<>> /\ ~w) =>
                (k = n /\ call_ret.result = Err(FlashErr("NoTargets", 0, 0)))
          /\ (log[k].ok /\ log[k].targets = <<>> /\ w /\ t.some /\ log[k].elapsed >= t.ms) =>
                (k = n /\ call_ret.result = Err(FlashErr("NoTargets", 0, 0)))
          /\ (log[k].ok /\ log[k].targets = <<>> /\ w /\ (t.some => log[k].elapsed < t.ms)) =>
                (k < n \/ ~DiscoverReturned)
          /\ k > 1 => log[k].started >= log[k - 1].elapsed + 250
    /\ DiscoverReturned =>
          /\ n >= 1
          /\ call_ret.result.tag = "Ok" => (log[n].ok /\ log[n].targets # <<>>)
          /\ call_ret.result = Err(FlashErr("NoTargets", 0, 0)) =>
                /\ log[n].ok /\ log[n].targets = <<>>
                /\ w => (t.some /\ log[n].elapsed >= t.ms)

\* C31: discover_targets_for_flash emits DiscoverStart once and, for each
\* poll that listed the targets, their TargetDetected events followed by one
\* DiscoverDone{count}; with wait = false it polls once and an empty list
\* fails NoTargets; with wait = true polls are at least 250 ms apart, the
\* first non-empty list is returned, and an empty list fails NoTargets once
\* the elapsed time has reached wait_timeout; and with wait = false or
\* wait_timeout = Some(t) the function eventually returns.
C31_DiscoveryLoop ==
    /\ []C31_Safety
    /\ (~call_args.wait \/ call_args.wait_timeout.some) ~> DiscoverReturned

C31_Witness ==
    /\ call_args.wait /\ call_args.wait_timeout = SomeTimeout(DiscoverSleepMs + 50)
    /\ DiscoverReturned
    /\ Len(DiscoverLog) = 2
    /\ DiscoverLog[2].elapsed = DiscoverSleepMs + 50
    /\ call_ret.result = Err(FlashErr("NoTargets", 0, 0))
    /\ CountEv(events, {"DiscoverDone"}) = 2

\* The Reboot API on selections of one or two targets.
InitRebootPair ==
    /\ InitReboot
    /\ Len(selected) <= 2

SpecRebootPair == InitRebootPair /\ [][NextReboot]_vars

\* The events of the k-th target run, from its TargetStart to its
\* TargetDone, and the device accesses made for it.
StartOf(k) == CHOOSE p \in EventsAt("TargetStart") :
                  Cardinality({q \in EventsAt("TargetStart") : q <= p}) = k
DoneOf(k) == CHOOSE p \in EventsAt("TargetDone") :
                 Cardinality({q \in EventsAt("TargetDone") : q <= p}) = k
SegmentOf(k) == SubSeq(events, StartOf(k), DoneOf(k))
AccessesOf(k) == SelectSeq(touches, LAMBDA t : t.target = k)
OpsOf(seq) == [i \in 1..Len(seq) |-> seq[i].op]
NamesOf(seq) == [i \in 1..Len(seq) |-> seq[i].ev]
IsPrefix(a, b) == Len(a) <= Len(b) /\ SubSeq(b, 1, Len(a)) = a

\* C32: in the Reboot API a HalfKay target emits HalfKayOpen with its known
\* path and succeeds without any device access; a Serial target takes the
\* snapshot, triggers the soft reboot, waits for a new path and emits
\* HalfKayAppeared with it, in this order; no run emits Block, Retry, Boot
\* or Done or writes a HID report.
C32_RebootPerTarget ==
    /\ EventNames(events) \cap {"Block", "Retry", "Boot", "Done"} = {}
    /\ \A i \in 1..Len(touches) :
          touches[i].op \in {"list_paths", "soft_reboot_port", "wait_for_new_halfkay"}
    /\ \A k \in 1..Len(results) :
          LET t == selected[k]
              seg == SegmentOf(k)
              acc == AccessesOf(k) IN
          /\ t.kind = "HalfKay" =>
                /\ results[k] = Ok
                /\ NamesOf(seg) = <<"TargetStart", "HalfKayOpen", "TargetDone">>
                /\ seg[2].tid = TargetId(t) /\ seg[2].msg = <<t.name>>
                /\ seg[3].ok
                /\ acc = <<>>
          /\ t.kind = "Serial" =>
                /\ IsPrefix(OpsOf(acc), <<"list_paths", "soft_reboot_port", "wait_for_new_halfkay">>)
                /\ acc # <<>>
                /\ \A i \in 1..(Len(acc) - 1) : acc[i].ok
                /\ (results[k] = Ok) <=> (Len(acc) = 3 /\ acc[3].ok)
                /\ results[k] = Ok =>
                      /\ NamesOf(seg) = <<"TargetStart", "SoftReboot", "HalfKayAppeared", "TargetDone">>
                      /\ seg[3].msg = <<acc[3].arg.path>>
                      /\ acc[2].arg = t.name
                /\ results[k] # Ok =>
                      /\ "HalfKayAppeared" \notin EventNames(seg)
                      /\ ("SoftReboot" \in EventNames(seg)) <=> (Len(acc) = 3)

C32_Witness ==
    /\ pc = "returned"
    /\ Len(results) = 2
    /\ selected[1].kind = "HalfKay" /\ selected[2].kind = "Serial"
    /\ results = <<Ok, Ok>>
    /\ before # {}

\* C33: every BridgeResumeFailed event carries a recovery hint that is
\* present and not empty, whatever the kind of the guard's resume plan.
C33_ResumeHint ==
    \A k \in EventsAt("BridgeResumeFailed") :
        /\ events[k].msg.some
        /\ events[k].msg.v # <<>>

\* Targets whose wait ended because more than one new HalfKay path appeared.
SeveralAppeared(k) ==
    /\ results[k].tag = "Err"
    /\ results[k].err.tag = "AmbiguousTarget"
    /\ \E n \in 2..(MaxHidPaths + 1) :
          results[k].err.a = WaitHalfKayError_to_string(WaitErr("Ambiguous", n))
SeveralAppearedAt == {k \in 1..Len(results) : SeveralAppeared(k)}

\* C34: a multi-target flash in which some target failed because several
\* new HalfKay paths appeared after its reboot returns AmbiguousTarget with
\* the message of the first such target, not MultiTargetFailed, also when
\* other targets succeeded.
C34_FlashAmbiguousSticky ==
    (pc = "returned" /\ Len(selected) > 1 /\ SeveralAppearedAt # {}) =>
        result = Err(FlashErr("AmbiguousTarget", results[First(SeveralAppearedAt)].err.a, 0))

\* The resume plan kind that belongs to a BridgePauseMethod.
PlanKindOf(method) ==
    CASE method = "Control" -> "Control"
      [] method = "Service" -> "Service"
      [] method = "Process" -> "Processes"
      [] OTHER -> "None"

GuardIffPaused(bp) ==
    /\ bp.guard.some <=> (bp.outcome = "Paused")
    /\ bp.outcome = "Paused" =>
          /\ bp.detail \in {"Control", "Service", "Process"}
          /\ bp.guard.resume.kind = PlanKindOf(bp.detail)
    /\ ~bp.guard.some => bp.guard.resume = NoPlan

\* C35: pause_oc_bridge returns a guard iff its outcome is Paused, for every
\* method and every answer of the host, and the guard's resume plan is of
\* the kind named by the outcome's method (Control, Service, Processes for
\* Process).
C35_GuardIffPaused ==
    PauseDone =>
        /\ GuardIffPaused(call_ret.ret)
        /\ call_ret.ret = pause_oc_bridge(call_args.opts, call_args.obs)

C35_Witness ==
    /\ PauseDone
    /\ call_args.opts.method = "Service"
    /\ call_ret.ret.outcome = "Paused"
    /\ call_ret.ret.guard = SomeGuard(ServicePlan)
    /\ CallsOf("stop_service") # {}

\* C36: a call of pause_oc_bridge whose outcome is Skipped or Failed left
\* the bridge untouched: no IPC pause was acknowledged with paused = true,
\* no service stop command was issued and no process was asked to exit.
C36_UntouchedWithoutGuard ==
    (PauseDone /\ call_ret.ret.outcome \in {"Skipped", "Failed"}) =>
        /\ \A k \in CallsOf("control_pause") : ~call_ret.log[k].arg
        /\ \A k \in CallsOf("stop_service") : ~call_ret.log[k].arg
        /\ CallsOf("kill") = {}

\* The calls of resume(plan, timeout) in which relaunch command j was spawned.
SpawnsOf(j) ==
    {k \in 1..Len(g_log) : g_log[k].plan.kind = "Processes" /\ j <= g_log[k].spawned}

\* C37: over the life of a guard holding a Processes plan, the explicit
\* resume (called once, as the runner does) and the retry on drop together
\* spawn each recorded relaunch command at most once.
C37_SpawnAtMostOnce ==
    (g_init.kind = "Processes" /\ Len(g_calls) <= 1) =>
        \A j \in 1..g_init.cmds : Cardinality(SpawnsOf(j)) <= 1

\* The write attempts of a flash, in order, and the addresses of those that
\* succeeded; the Block events, in order.
WriteLog == SelectSeq(touches, LAMBDA t : t.op = "write_block")
WrittenOk == LET w == SelectSeq(WriteLog, LAMBDA t : t.ok) IN [i \in 1..Len(w) |-> w[i].arg]
BlockEvents == SelectSeq(events, LAMBDA e : e.ev = "Block")
PositionOf(a) == CHOOSE k \in 1..Len(blocks_to_write) : blocks_to_write[k] = a

\* C38: in flash_halfkay_path the successful writes follow blocks_to_write,
\* each block once; a block is attempted only after the block before it was
\* written and never after its own success; the Block events are one per
\* block reached, with index from 0, total = |blocks_to_write| and the
\* block's address; Done is emitted only when every block was written.
C38_BlockStreaming ==
    LET n == Len(blocks_to_write) IN
    /\ IsPrefix(WrittenOk, blocks_to_write)
    /\ \A i \in 1..Len(WriteLog) :
          LET k == PositionOf(WriteLog[i].arg) IN
          /\ WriteLog[i].arg \in BlockAddrs
          /\ Cardinality({j \in 1..(i - 1) : WriteLog[j].ok}) = k - 1
    /\ Len(BlockEvents) <= n
    /\ \A k \in 1..Len(BlockEvents) :
          /\ BlockEvents[k].msg = <<k - 1, n, blocks_to_write[k]>>
          /\ BlockEvents[k].tid = TargetId(selected[1])
    /\ Len(BlockEvents) \in {Len(WrittenOk), Len(WrittenOk) + 1}
    /\ \A i \in 1..Len(WriteLog) : PositionOf(WriteLog[i].arg) <= Len(BlockEvents)
    /\ EventsAt("Done") # {} =>
          /\ WrittenOk = blocks_to_write
          /\ Len(BlockEvents) = n
          /\ Cardinality(EventsAt("Done")) = 1

C38_Witness ==
    /\ EventsAt("Done") # {}
    /\ Len(blocks_to_write) = 2
    /\ Len(WriteLog) = 3
    /\ ~WriteLog[1].ok
    /\ retries = 1

ResumeEventsAt ==
    EventsAt("BridgeResumeStart") \cup EventsAt("BridgeResumed") \cup EventsAt("BridgeResumeFailed")

\* C39: in a run of run_targets_with_bridge that paused the bridge,
\* BridgePaused precedes the first TargetStart; as long as the target loop
\* has not ended the guard is alive with its plan and no resume action was
\* performed; BridgeResumeStart and the resume action come after the last
\* TargetDone, once.
C39_PausedDuringTargets ==
    EventsAt("BridgePaused") # {} =>
        /\ Cardinality(EventsAt("BridgePaused")) = 1
        /\ \A s \in EventsAt("TargetStart") : First(EventsAt("BridgePaused")) < s
        /\ \A r \in ResumeEventsAt :
              \A t \in EventsAt("TargetStart") \cup EventsAt("TargetDone") : t < r
        /\ pc \in {"loop", "resolve", "resume"} =>
              /\ g_state = "live"
              /\ g_init # NoPlan
              /\ g_resume = g_init
              /\ g_log = <<>>
              /\ ResumeEventsAt = {}
        /\ g_log # <<>> =>
              /\ Cardinality(EventsAt("BridgeResumeStart")) = 1
              /\ Cardinality(EventsAt("TargetStart")) = Cardinality(EventsAt("TargetDone"))
              /\ Len(results) = Len(ran)
              /\ pc \in {"return", "returned"}
        /\ pc \in {"return", "returned"} => g_log # <<>>

C39_Witness ==
    /\ pc = "returned"
    /\ EventsAt("BridgePaused") # {}
    /\ Len(ran) = 3
    /\ results[2] # Ok
    /\ results[3] = Ok
    /\ EventsAt("BridgeResumeFailed") # {}
    /\ Len(g_log) = 2

\* The Serial targets whose wait_for_new_halfkay has returned, with the
\* snapshot taken for them, the paths the last poll of their wait listed,
\* and the paths of that poll the snapshot did not hold.
Waited(k) == selected[k].kind = "Serial" /\ Len(AccessesOf(k)) = 3
SnapshotFor(k) == AccessesOf(k)[1].arg
SeenBy(k) == AccessesOf(k)[3].arg.now
NewFor(k) == SeenBy(k) \ SnapshotFor(k)
AppearedFor(k) == AccessesOf(k)[3].arg.path
SeveralNew(n) ==
    Err(RebootErr("AmbiguousTarget", <<"multiple new HalfKay devices appeared (", n, ")">>, 0))

\* C40: in a run over several targets the snapshot of a Serial target is
\* taken after every device access of the targets before it, and the
\* target's wait is decided on the paths outside that snapshot alone: a path
\* that appeared for an earlier target and is in the later target's snapshot
\* is neither returned for the later target nor counted among its new paths,
\* so one further new path gives Ok and not Ambiguous.
C40_SnapshotPerTarget ==
    /\ \A a, b \in 1..Len(touches) : a < b => touches[a].target <= touches[b].target
    /\ \A k \in 1..Len(results) :
          Waited(k) =>
             /\ AccessesOf(k)[1].op = "list_paths"
             /\ (results[k] = Ok) <=> (Cardinality(NewFor(k)) = 1 /\ AccessesOf(k)[3].ok)
             /\ results[k] = Ok => NewFor(k) = {AppearedFor(k)}
             /\ Cardinality(NewFor(k)) > 1 => results[k] = SeveralNew(Cardinality(NewFor(k)))
             /\ Cardinality(NewFor(k)) <= 1 =>
                   (results[k] = Ok \/ results[k].err.tag # "AmbiguousTarget")
             /\ \A j \in 1..(k - 1) :
                   (Waited(j) /\ results[j] = Ok /\ AppearedFor(j) \in SnapshotFor(k)) =>
                      /\ AppearedFor(j) \notin NewFor(k)
                      /\ results[k] = Ok => AppearedFor(k) # AppearedFor(j)

C40_Witness ==
    /\ pc = "returned"
    /\ Len(results) = 2
    /\ Waited(1) /\ Waited(2)
    /\ results = <<Ok, Ok>>
    /\ AppearedFor(1) \in SnapshotFor(2)
    /\ AppearedFor(1) \in SeenBy(2)
    /\ AppearedFor(2) # AppearedFor(1)
    /\ SnapshotFor(1) = {}

====
